---- MODULE Spec2Model ----
(***************************************************************************)
(* The keyword classifiers of the escrow dapp front-ends and the grouping  *)
(* views of the transaction Dashboard built on them:                       *)
(*   fallbackCategorization   utils/ai.ts                                  *)
(*   getErrorCategory, categorizeByMessages, categorizeTransactions        *)
(*                            the Dashboard page (src/unnamed/part_000)    *)
(* A text is a TLA+ string; Len, SubSeq and \o act on it character by      *)
(* character, which is how String.prototype.includes, toLowerCase and trim *)
(* are computed below.                                                     *)
(***************************************************************************)
EXTENDS Integers, Sequences, FiniteSets, TLC

VARIABLES
    text,               \* the string handed to a classifier
    call,               \* the classifier applied to text last ("none" before any)
    result,             \* what that call returned
    transactions,       \* Dashboard state: const [transactions, setTransactions]
    rendered,           \* whether the Dashboard body has run on transactions
    categories,         \* const categories = categorizeTransactions()
    messageCategories,  \* const messageCategories = categorizeByMessages()
    apiKey,             \* GEMINI_API_KEY, read from the environment at build time
    promise,            \* the promise of categorizeTransaction: "none" before the
                        \* call, then "pending", "resolved" or "rejected"
    requests,           \* how many times categorizeTransaction called fetch
    response,           \* what the Gemini call came back with (NoResponse before)
    pendingTransactions, \* PendingTransactions state: const [transactions, ...]
    userAddress,        \* const [userAddress, setUserAddress]
    loading,            \* const [loading, setLoading]
    loads,              \* calls of loadTransactions waiting on their timer
    actionLoading,      \* const [actionLoading, setActionLoading]
    inFlight,           \* calls of handleApprove and handleCancel waiting on
                        \* their timer, each with the userAddress of its closure
    escrowTx,           \* approveTransaction: the argument transaction
    userRole,           \* approveTransaction: the argument userRole
    approveTx,          \* const tx = new Transaction({ initiator: wallet })
    approval,           \* where approveTransaction stands: "none" before the
                        \* call, "signTx" and "submitTx" at its awaits, then
                        \* "resolved" or "rejected"
    sendMessage,        \* Home state: const [sendMessage, setSendMessage]
    isAiCategorizing,   \* const [isAiCategorizing, setIsAiCategorizing]
    aiSuggestion,       \* const [aiSuggestion, setAiSuggestion]
    categorizing,       \* the call of categorizeTransaction that
                        \* handleMessageChange awaits, with its argument
    suggestedFor,       \* history: the argument of the call whose result
                        \* aiSuggestion holds
    stored,             \* localStorage: the value under 'cardano_transactions'
    saves,              \* how many times saveTransaction was called
    transactionHistory, \* const [transactionHistory, setTransactionHistory]
    network,            \* const [network, setNetwork]
    recipientAddress,   \* const [recipientAddress, setRecipientAddress]
    sendAmount,         \* const [sendAmount, setSendAmount]
    sendLoading,        \* const [sendLoading, setSendLoading]
    sendStatus,         \* const [sendStatus, setSendStatus]
    sending,            \* the call of sendAda under way: the values of its
                        \* closure and the await it stands at
    signed,             \* the calls of wallet.signTx made so far
    submitted,          \* the calls of wallet.submitTx made so far
    resetTimers         \* the timers of line 269 that have not fired yet

aiVars == <<apiKey, promise, requests, response>>

pendingVars ==
    <<pendingTransactions, userAddress, loading, loads, actionLoading, inFlight>>

approveVars == <<escrowTx, userRole, approveTx, approval>>

suggestVars ==
    <<sendMessage, isAiCategorizing, aiSuggestion, categorizing, suggestedFor>>

historyVars == <<stored, saves, transactionHistory>>

sendVars ==
    <<network, recipientAddress, sendAmount, sendLoading, sendStatus, sending,
      signed, submitted, resetTimers>>

\* the state of the send page and of the escrow helpers
formVars == <<approveVars, suggestVars, historyVars, sendVars>>

vars ==
    <<text, call, result, transactions, rendered, categories, messageCategories,
      aiVars, pendingVars, formVars>>

(***************************************************************************)
(* Bounds of the input space.                                              *)
(***************************************************************************)
\* a classified text is the concatenation of at most MaxTokens tokens
MaxTokens == 3
\* the Dashboard holds at most MaxTxs transactions
MaxTxs == 2
\* at most MaxInFlight calls of handleApprove and handleCancel wait on their
\* timer at a time
MaxInFlight == 2
\* at most MaxLoads calls of loadTransactions wait on their timer at a time
MaxLoads == 2
\* saveTransaction is called at most MaxSaves times on one history
MaxSaves == 3
\* sendAda is called at most MaxSends times
MaxSends == 2

(***************************************************************************)
(* JavaScript strings.                                                     *)
(***************************************************************************)
UpperCaseLetters == "ABCDEFGHIJKLMNOPQRSTUVWXYZ"
LowerCaseLetters == "abcdefghijklmnopqrstuvwxyz"

\* TLA+ strings hold ASCII only.  "#" stands for U+0131 LATIN SMALL LETTER
\* DOTLESS I, a lowercase letter that toLowerCase leaves alone and whose
\* uppercase form is the ASCII letter I.
DotlessI == "#"

\* the white space String.prototype.trim strips (the ASCII part of it)
WhiteSpace == {" ", "\t", "\n"}

charAt(s, i) == SubSeq(s, i, i)

\* the simple case mapping of the ASCII letters: "A" |-> "a", ..., "Z" |-> "z"
lowerCaseOf ==
    [c \in {charAt(UpperCaseLetters, i) : i \in 1..Len(UpperCaseLetters)} |->
        LET i == CHOOSE j \in 1..Len(UpperCaseLetters) : charAt(UpperCaseLetters, j) = c
        IN  charAt(LowerCaseLetters, i)]

lowerChar(c) == IF c \in DOMAIN lowerCaseOf THEN lowerCaseOf[c] ELSE c

\* toLowerCase left out: the text compared as typed
toLowerCaseOmitted(s) == s

RECURSIVE toLowerCase(_)
\* String.prototype.toLowerCase: the letters A to Z mapped to a to z, every
\* other character of the alphabet used here (ASCII, the dotless i) kept
\* (a string with no letter to map is returned as it is)
toLowerCase(s) ==
    IF \A i \in 1..Len(s) : charAt(s, i) \notin DOMAIN lowerCaseOf THEN s
    ELSE lowerChar(charAt(s, 1)) \o toLowerCase(SubSeq(s, 2, Len(s)))

\* String.prototype.includes: k occurs in s as a contiguous substring
\* (the empty string occurs in every string)
includes(s, k) ==
    \E i \in 1..(Len(s) - Len(k) + 1) : SubSeq(s, i, i + Len(k) - 1) = k

RECURSIVE trimStart(_)
trimStart(s) ==
    IF Len(s) > 0 /\ charAt(s, 1) \in WhiteSpace
    THEN trimStart(SubSeq(s, 2, Len(s)))
    ELSE s

RECURSIVE trimEnd(_)
trimEnd(s) ==
    IF Len(s) > 0 /\ charAt(s, Len(s)) \in WhiteSpace
    THEN trimEnd(SubSeq(s, 1, Len(s) - 1))
    ELSE s

\* String.prototype.trim
trim(s) == trimEnd(trimStart(s))

\* an optional string field (message?: string): absent, or present with a value
Undefined == [def |-> FALSE]
Str(s) == [def |-> TRUE, val |-> s]

(***************************************************************************)
(* utils/escrow.ts and utils/ai.ts: the transaction categories and the     *)
(* keyword fallback.                                                       *)
(***************************************************************************)
TRANSACTION_CATEGORIES ==
    <<"Food", "Shopping", "Bills", "Entertainment", "Transport", "Services",
      "Investment", "Gift", "Other">>

\* Object.entries(categoryKeywords): the entries in insertion order
categoryKeywords ==
    << <<"Food",
         <<"restaurant", "food", "meal", "lunch", "dinner", "breakfast", "coffee",
           "pizza", "burger", "grocery", "supermarket", "bakery", "cafe", "eat",
           "snack", "drink", "beverage", "kitchen", "cooking", "recipe">> >>,
       <<"Shopping",
         <<"shopping", "store", "mall", "buy", "purchase", "retail", "clothes",
           "clothing", "fashion", "shoes", "accessories", "electronics", "gadget",
           "amazon", "ebay", "shop", "merchandise", "item", "product">> >>,
       <<"Bills",
         <<"bill", "utility", "electricity", "gas", "water", "internet", "phone",
           "rent", "mortgage", "insurance", "subscription", "netflix", "spotify",
           "payment", "monthly", "annual", "service charge", "fee">> >>,
       <<"Entertainment",
         <<"movie", "cinema", "theater", "concert", "music", "game", "gaming",
           "entertainment", "fun", "party", "club", "bar", "vacation", "travel",
           "holiday", "ticket", "event", "show", "sports", "hobby">> >>,
       <<"Transport",
         <<"transport", "taxi", "uber", "lyft", "bus", "train", "subway", "flight",
           "airline", "fuel", "gas station", "parking", "car", "vehicle",
           "motorcycle", "bike", "commute", "travel", "journey">> >>,
       <<"Services",
         <<"service", "repair", "maintenance", "cleaning", "haircut", "salon",
           "spa", "doctor", "medical", "hospital", "dentist", "lawyer", "consultant",
           "professional", "freelance", "contractor", "plumber", "electrician">> >>,
       <<"Investment",
         <<"investment", "stock", "crypto", "bitcoin", "ethereum", "savings",
           "portfolio", "trading", "broker", "dividend", "interest", "fund",
           "etf", "bond", "financial", "bank", "deposit">> >>,
       <<"Gift",
         <<"gift", "present", "birthday", "anniversary", "christmas", "holiday",
           "donation", "charity", "tip", "bonus", "reward", "prize", "wedding",
           "graduation", "celebration", "surprise">> >> >>

RECURSIVE keywordLoop(_, _, _)
\* for (const keyword of keywords) if (lowerMessage.includes(keyword)) ...:
\* whether the loop reaches its return
keywordLoop(lowerMessage, keywords, k) ==
    IF k > Len(keywords) THEN FALSE
    ELSE IF includes(lowerMessage, keywords[k]) THEN TRUE
    ELSE keywordLoop(lowerMessage, keywords, k + 1)

RECURSIVE entriesLoopUnlistedDefault(_, _, _)
\* entriesLoop with a default that is no transaction category
entriesLoopUnlistedDefault(lowerMessage, entries, e) ==
    IF e > Len(entries) THEN "Uncategorized"
    ELSE IF keywordLoop(lowerMessage, entries[e][2], 1) THEN entries[e][1]
    ELSE entriesLoopUnlistedDefault(lowerMessage, entries, e + 1)

RECURSIVE entriesLoop(_, _, _)
\* for (const [category, keywords] of Object.entries(categoryKeywords)),
\* then the default return
entriesLoop(lowerMessage, entries, e) ==
    IF e > Len(entries) THEN "Other"
    ELSE IF keywordLoop(lowerMessage, entries[e][2], 1) THEN entries[e][1]
    ELSE entriesLoop(lowerMessage, entries, e + 1)

fallbackCategorization(message) ==
    LET lowerMessage == toLowerCase(message)
    IN  entriesLoop(lowerMessage, categoryKeywords, 1)

(***************************************************************************)
(* Dashboard: getErrorCategory.                                            *)
(***************************************************************************)
\* getErrorCategory with the timeout test left out and "Timeout" as the default
getErrorCategoryTimeoutDefault(errorMessage) ==
    LET message == toLowerCase(errorMessage)
    IN  IF includes(message, "insufficient") \/ includes(message, "depleted")
        THEN "Insufficient Funds"
        ELSE IF includes(message, "declined") \/ includes(message, "cancelled")
        THEN "User Cancelled"
        ELSE IF includes(message, "network") \/ includes(message, "connection")
        THEN "Network Issues"
        ELSE IF includes(message, "address") \/ includes(message, "invalid")
        THEN "Invalid Address"
        ELSE "Timeout"

\* getErrorCategory with the timeout test moved ahead of the network test
getErrorCategoryTimeoutFirst(errorMessage) ==
    LET message == toLowerCase(errorMessage)
    IN  IF includes(message, "insufficient") \/ includes(message, "depleted")
        THEN "Insufficient Funds"
        ELSE IF includes(message, "declined") \/ includes(message, "cancelled")
        THEN "User Cancelled"
        ELSE IF includes(message, "timeout")
        THEN "Timeout"
        ELSE IF includes(message, "network") \/ includes(message, "connection")
        THEN "Network Issues"
        ELSE IF includes(message, "address") \/ includes(message, "invalid")
        THEN "Invalid Address"
        ELSE "Other Errors"

\* getErrorCategory without its toLowerCase: the keywords are looked for in
\* the text as given
getErrorCategoryCaseSensitive(errorMessage) ==
    LET message == errorMessage
    IN  IF includes(message, "insufficient") \/ includes(message, "depleted")
        THEN "Insufficient Funds"
        ELSE IF includes(message, "declined") \/ includes(message, "cancelled")
        THEN "User Cancelled"
        ELSE IF includes(message, "network") \/ includes(message, "connection")
        THEN "Network Issues"
        ELSE IF includes(message, "address") \/ includes(message, "invalid")
        THEN "Invalid Address"
        ELSE IF includes(message, "timeout")
        THEN "Timeout"
        ELSE "Other Errors"

getErrorCategory(errorMessage) ==
    LET message == toLowerCase(errorMessage)
    IN  IF includes(message, "insufficient") \/ includes(message, "depleted")
        THEN "Insufficient Funds"
        ELSE IF includes(message, "declined") \/ includes(message, "cancelled")
        THEN "User Cancelled"
        ELSE IF includes(message, "network") \/ includes(message, "connection")
        THEN "Network Issues"
        ELSE IF includes(message, "address") \/ includes(message, "invalid")
        THEN "Invalid Address"
        ELSE IF includes(message, "timeout")
        THEN "Timeout"
        ELSE "Other Errors"

(***************************************************************************)
(* Dashboard: the transactions it groups.  A Transaction is modelled by    *)
(* the fields the grouping reads: id, status, message and errorMessage.    *)
(***************************************************************************)
Status == {"success", "failed", "pending"}

\* hasMessage without the trim: tx.message alone
hasMessageUntrimmed(tx) ==
    /\ tx.message.def
    /\ tx.message.val # ""

\* tx.message && tx.message.trim() !== ''
hasMessage(tx) ==
    /\ tx.message.def
    /\ tx.message.val # ""
    /\ trim(tx.message.val) # ""

\* the message categories as declared, every bucket empty (the presentation
\* fields color and icon are left out)
messageCategoryTable ==
    << [category |-> "Payments & Purchases",
        keywords |-> <<"payment", "purchase", "buy", "pay", "invoice", "bill",
                       "shopping", "store">>,
        transactions |-> <<>>],
       [category |-> "Gifts & Tips",
        keywords |-> <<"gift", "tip", "donation", "birthday", "christmas",
                       "present", "thanks", "reward">>,
        transactions |-> <<>>],
       [category |-> "Business & Work",
        keywords |-> <<"salary", "work", "business", "contract", "service",
                       "freelance", "client", "project">>,
        transactions |-> <<>>],
       [category |-> "Family & Friends",
        keywords |-> <<"family", "friend", "mom", "dad", "brother", "sister",
                       "loan", "borrow", "help">>,
        transactions |-> <<>>],
       [category |-> "Food & Dining",
        keywords |-> <<"food", "dinner", "lunch", "restaurant", "coffee", "meal",
                       "pizza", "delivery">>,
        transactions |-> <<>>],
       [category |-> "Testing & Development",
        keywords |-> <<"test", "testing", "demo", "example", "try", "sample",
                       "debug", "dev">>,
        transactions |-> <<>>],
       [category |-> "Other Messages",
        keywords |-> <<>>,
        transactions |-> <<>>] >>

\* keyword.toLowerCase() for the keywords of the message table, computed once
lowerCaseKeyword ==
    [keyword \in UNION {{messageCategoryTable[c].keywords[k] :
                            k \in 1..Len(messageCategoryTable[c].keywords)} :
                        c \in 1..Len(messageCategoryTable)} |->
        toLowerCase(keyword)]

\* category.keywords.some(keyword => message.includes(keyword.toLowerCase()))
hasKeyword(category, message) ==
    \E k \in 1..Len(category.keywords) :
        LET keyword == category.keywords[k]
        IN  includes(message, IF keyword \in DOMAIN lowerCaseKeyword
                              THEN lowerCaseKeyword[keyword]
                              ELSE toLowerCase(keyword))

RECURSIVE categoryLoopLastMatch(_, _, _)
\* categoryLoop without its break: the last matching category wins
categoryLoopLastMatch(message, cats, i) ==
    IF i > Len(cats) - 1 THEN 0
    ELSE LET later == categoryLoopLastMatch(message, cats, i + 1)
         IN  IF later # 0 THEN later
             ELSE IF hasKeyword(cats[i], message) THEN i
             ELSE 0

RECURSIVE categoryLoopThroughLast(_, _, _)
\* categoryLoop with the bound i < messageCategories.length: the keywords of
\* the last category are tested like those of the others
categoryLoopThroughLast(message, cats, i) ==
    IF i > Len(cats) THEN 0
    ELSE IF hasKeyword(cats[i], message) THEN i
    ELSE categoryLoopThroughLast(message, cats, i + 1)

RECURSIVE categoryLoop(_, _, _)
\* for (let i = 0; i < messageCategories.length - 1; i++) ... break:
\* the position of the category the transaction is pushed to, 0 when the
\* loop ends with categorized still false
categoryLoop(message, cats, i) ==
    IF i > Len(cats) - 1 THEN 0
    ELSE IF hasKeyword(cats[i], message) THEN i
    ELSE categoryLoop(message, cats, i + 1)

\* pushTransaction with categorized never set: a categorized transaction is
\* pushed to "Other Messages" as well
pushTransactionAlsoOther(cats, tx) ==
    LET message == toLowerCase(tx.message.val)
        i == categoryLoop(message, cats, 1)
        pushed == IF i # 0 THEN [cats EXCEPT ![i].transactions = Append(@, tx)]
                  ELSE cats
    IN  [pushed EXCEPT ![Len(cats)].transactions = Append(@, tx)]

\* the body of txsWithMessages.forEach for one transaction
pushTransaction(cats, tx) ==
    LET message == toLowerCase(tx.message.val)
        i == categoryLoop(message, cats, 1)
        target == IF i # 0 THEN i ELSE Len(cats)
    IN  [cats EXCEPT ![target].transactions = Append(@, tx)]

RECURSIVE forEachTransactionBackwards(_, _, _)
\* forEachTransaction walking the transactions from the last to the first
forEachTransactionBackwards(txs, cats, n) ==
    IF n > Len(txs) THEN cats
    ELSE pushTransaction(forEachTransactionBackwards(txs, cats, n + 1), txs[n])

RECURSIVE forEachTransaction(_, _, _)
forEachTransaction(txs, cats, n) ==
    IF n > Len(txs) THEN cats
    ELSE forEachTransaction(txs, pushTransaction(cats, txs[n]), n + 1)

\* categorizeByMessages without its closing filter
categorizeByMessagesUnfiltered(txs) ==
    LET txsWithMessages == SelectSeq(txs, hasMessage)
    IN  forEachTransaction(txsWithMessages, messageCategoryTable, 1)

\* categorizeByMessages with its table declared once, outside the function:
\* a call starts from the buckets the call before it filled
categorizeByMessagesKeepingBuckets(txs) ==
    LET kept(c) ==
            LET same == {b \in 1..Len(messageCategories) :
                            messageCategories[b].category
                                = messageCategoryTable[c].category}
            IN  IF same = {} THEN <<>>
                ELSE messageCategories[CHOOSE b \in same : TRUE].transactions
        table == [c \in 1..Len(messageCategoryTable) |->
                     [messageCategoryTable[c] EXCEPT !.transactions = kept(c)]]
        txsWithMessages == SelectSeq(txs, hasMessage)
        filled == forEachTransaction(txsWithMessages, table, 1)
    IN  SelectSeq(filled, LAMBDA category : Len(category.transactions) > 0)

categorizeByMessages(txs) ==
    LET txsWithMessages == SelectSeq(txs, hasMessage)
        filled == forEachTransaction(txsWithMessages, messageCategoryTable, 1)
    IN  SelectSeq(filled, LAMBDA category : Len(category.transactions) > 0)

\* position of the key errorType in the object acc, 0 when acc has no such key
keyIndex(acc, errorType) ==
    IF \E i \in 1..Len(acc) : acc[i].errorType = errorType
    THEN CHOOSE i \in 1..Len(acc) : acc[i].errorType = errorType
    ELSE 0

\* groupByError leaving out a transaction with no error text
groupByErrorSkipBlank(acc, tx) ==
    IF ~tx.errorMessage.def \/ trim(tx.errorMessage.val) = ""
    THEN acc
    ELSE LET errorType == getErrorCategory(tx.errorMessage.val)
             created ==
                 IF keyIndex(acc, errorType) = 0
                 THEN Append(acc, [errorType |-> errorType, txs |-> <<>>])
                 ELSE acc
         IN  [created EXCEPT ![keyIndex(created, errorType)].txs = Append(@, tx)]

\* groupByError keeping the keys in the order getErrorCategory tests them: a
\* new key goes before every key of a later rule
groupByErrorRuleOrder(acc, tx) ==
    LET rules == <<"Insufficient Funds", "User Cancelled", "Network Issues",
                   "Invalid Address", "Timeout", "Other Errors">>
        rank(name) == CHOOSE r \in 1..Len(rules) : rules[r] = name
        errorType ==
            getErrorCategory(IF tx.errorMessage.def THEN tx.errorMessage.val ELSE "")
        before == SelectSeq(acc, LAMBDA e : rank(e.errorType) < rank(errorType))
        after == SelectSeq(acc, LAMBDA e : rank(e.errorType) > rank(errorType))
        created ==
            IF keyIndex(acc, errorType) = 0
            THEN before \o <<[errorType |-> errorType, txs |-> <<>>]>> \o after
            ELSE acc
    IN  [created EXCEPT ![keyIndex(created, errorType)].txs = Append(@, tx)]

\* the reducer of failed.reduce; the object acc is the sequence of its
\* entries in insertion order, the order Object.entries walks
groupByError(acc, tx) ==
    LET errorType ==
            getErrorCategory(IF tx.errorMessage.def THEN tx.errorMessage.val ELSE "")
        created ==
            IF keyIndex(acc, errorType) = 0
            THEN Append(acc, [errorType |-> errorType, txs |-> <<>>])
            ELSE acc
    IN  [created EXCEPT ![keyIndex(created, errorType)].txs = Append(@, tx)]

RECURSIVE reduceFailed(_, _, _)
reduceFailed(failed, acc, n) ==
    IF n > Len(failed) THEN acc
    ELSE reduceFailed(failed, groupByError(acc, failed[n]), n + 1)

\* the failed filter taking every transaction that did not succeed
failedTransactionsNotSuccess(txs) == SelectSeq(txs, LAMBDA tx : tx.status # "success")

\* transactions.filter(tx => tx.status === 'failed')
failedTransactions(txs) == SelectSeq(txs, LAMBDA tx : tx.status = "failed")

\* categorizeTransactions with failedByError starting from an object that
\* already has the key of the default category
categorizeTransactionsEagerDefault(txs) ==
    LET successful == SelectSeq(txs, LAMBDA tx : tx.status = "success")
        pending == SelectSeq(txs, LAMBDA tx : tx.status = "pending")
        failed == failedTransactions(txs)
        failedByError ==
            reduceFailed(failed, <<[errorType |-> "Other Errors", txs |-> <<>>]>>, 1)
    IN  << [title |-> "Successful Transactions", transactions |-> successful],
           [title |-> "Pending Transactions", transactions |-> pending] >>
        \o [e \in 1..Len(failedByError) |->
               [title |-> "Failed: " \o failedByError[e].errorType,
                transactions |-> failedByError[e].txs]]

categorizeTransactions(txs) ==
    LET successful == SelectSeq(txs, LAMBDA tx : tx.status = "success")
        pending == SelectSeq(txs, LAMBDA tx : tx.status = "pending")
        failed == failedTransactions(txs)
        failedByError == reduceFailed(failed, <<>>, 1)
    IN  << [title |-> "Successful Transactions", transactions |-> successful],
           [title |-> "Pending Transactions", transactions |-> pending] >>
        \o [e \in 1..Len(failedByError) |->
               [title |-> "Failed: " \o failedByError[e].errorType,
                transactions |-> failedByError[e].txs]]

(***************************************************************************)
(* categorizeTransaction (utils/ai.ts; the copy in src/unnamed/part_006    *)
(* has the same statements): the Gemini call with its keyword fallback.    *)
(* An optional value of the JSON answer is Undefined or Defined(v).        *)
(***************************************************************************)
Defined(v) == [def |-> TRUE, val |-> v]

\* the state before any call to the Gemini API
NoResponse == [fetch |-> "none", ok |-> FALSE, json |-> "none", data |-> Undefined]

\* the outcome of the try block: an exception, or the value it returns
Thrown == [threw |-> TRUE, value |-> ""]
Returned(value) == [threw |-> FALSE, value |-> value]

\* TRANSACTION_CATEGORIES.includes(category)
isCategory(category) ==
    \E c \in 1..Len(TRANSACTION_CATEGORIES) : TRANSACTION_CATEGORIES[c] = category

\* afterFetch with the answer returned as it is, not looked up in
\* TRANSACTION_CATEGORIES
afterFetchUnvalidated(message, r) ==
    IF r.fetch = "rejected" \/ ~r.ok \/ r.json = "rejected" \/ ~r.data.def
    THEN Thrown
    ELSE LET candidates == r.data.val.candidates
         IN  IF /\ candidates.def
                /\ Len(candidates.val) > 0
                /\ candidates.val[1].content.def
             THEN LET parts == candidates.val[1].content.val.parts
                  IN  IF ~parts.def THEN Thrown
                      ELSE IF Len(parts.val) = 0 THEN Thrown
                      ELSE IF ~parts.val[1].text.def THEN Thrown
                      ELSE Returned(trim(parts.val[1].text.val))
             ELSE Returned(fallbackCategorization(message))

\* the try block from the await of fetch on, for the response r
afterFetch(message, r) ==
    IF r.fetch = "rejected" THEN Thrown            \* await fetch(...) throws
    ELSE IF ~r.ok THEN Thrown                      \* throw new Error(...)
    ELSE IF r.json = "rejected" THEN Thrown        \* await response.json() throws
    ELSE IF ~r.data.def THEN Thrown                \* data is null: data.candidates
    ELSE LET candidates == r.data.val.candidates
         IN  IF /\ candidates.def
                /\ Len(candidates.val) > 0
                /\ candidates.val[1].content.def
             THEN LET parts == candidates.val[1].content.val.parts
                  IN  IF ~parts.def THEN Thrown                  \* undefined[0]
                      ELSE IF Len(parts.val) = 0 THEN Thrown     \* undefined.text
                      ELSE IF ~parts.val[1].text.def THEN Thrown \* undefined.trim()
                      ELSE LET category == trim(parts.val[1].text.val)
                           IN  IF isCategory(category) THEN Returned(category)
                               ELSE Returned(fallbackCategorization(message))
             ELSE Returned(fallbackCategorization(message))

\* catch (error) { ...; return fallbackCategorization(message); }
catchBlock(message) == [state |-> "resolved", value |-> fallbackCategorization(message)]

\* !GEMINI_API_KEY || GEMINI_API_KEY === 'undefined'
keyMissing(key) == ~key.def \/ key.val = "" \/ key.val = "undefined"

AIIdle ==
    /\ apiKey = Undefined
    /\ promise = "none"
    /\ requests = 0
    /\ response = NoResponse

(***************************************************************************)
(* PendingTransactions (src/unnamed/part_004).  A transaction is modelled  *)
(* by the fields its handlers read: id, sender, receiver, senderConfirmed, *)
(* receiverConfirmed and status.  The three addresses of the demo data are *)
(* named by their first characters.                                        *)
(***************************************************************************)
AddrQx2 == "addr1qx2"
AddrQy8 == "addr1qy8"
AddrQz9 == "addr1qz9"

DEMO_TRANSACTIONS ==
    << [id |-> 1, sender |-> AddrQx2, receiver |-> AddrQy8,
        senderConfirmed |-> FALSE, receiverConfirmed |-> FALSE, status |-> "pending"],
       [id |-> 2, sender |-> AddrQy8, receiver |-> AddrQx2,
        senderConfirmed |-> TRUE, receiverConfirmed |-> FALSE, status |-> "pending"],
       [id |-> 3, sender |-> AddrQx2, receiver |-> AddrQz9,
        senderConfirmed |-> TRUE, receiverConfirmed |-> TRUE, status |-> "completed"] >>

\* canUserApprove(transaction), with the userAddress of the last render
canUserApprove(transaction) ==
    LET isUserSender == transaction.sender = userAddress
        isUserReceiver == transaction.receiver = userAddress
    IN  IF transaction.status = "completed" THEN FALSE
        ELSE IF isUserSender /\ ~transaction.senderConfirmed THEN TRUE
        ELSE IF isUserReceiver /\ ~transaction.receiverConfirmed THEN TRUE
        ELSE FALSE

canUserCancel(transaction) ==
    transaction.sender = userAddress /\ transaction.status = "pending"

\* updatedTx without the step to 'completed'
updatedTxNeverCompleted(tx, user) ==
    LET isUserSender == tx.sender = user
        isUserReceiver == tx.receiver = user
    IN  [tx EXCEPT !.senderConfirmed = IF isUserSender THEN TRUE ELSE @,
                   !.receiverConfirmed = IF isUserReceiver THEN TRUE ELSE @]

\* what handleApprove makes of the transaction it approves; user is the
\* userAddress of the closure of the handler
updatedTx(tx, user) ==
    LET isUserSender == tx.sender = user
        isUserReceiver == tx.receiver = user
        confirmed ==
            [tx EXCEPT !.senderConfirmed = IF isUserSender THEN TRUE ELSE @,
                       !.receiverConfirmed = IF isUserReceiver THEN TRUE ELSE @]
    IN  IF confirmed.senderConfirmed /\ confirmed.receiverConfirmed
        THEN [confirmed EXCEPT !.status = "completed"]
        ELSE confirmed

\* prev.map(tx => tx.id === transaction.id ? updatedTx : tx)
approveUpdate(prev, id, user) ==
    [i \in 1..Len(prev) |-> IF prev[i].id = id THEN updatedTx(prev[i], user)
                            ELSE prev[i]]

\* prev.filter(tx => tx.id !== transaction.id)
cancelUpdate(prev, id) == SelectSeq(prev, LAMBDA tx : tx.id # id)

\* the state of the component before any event
PendingIdle ==
    /\ pendingTransactions = DEMO_TRANSACTIONS
    /\ userAddress = ""
    /\ loading = FALSE
    /\ loads = 0
    /\ actionLoading = Undefined
    /\ inFlight = {}

(***************************************************************************)
(* The escrow helpers of TransactionForm.jsx.  A JavaScript number is      *)
(* held as its count of tenths, so that an amount of ADA with one decimal  *)
(* and an amount of lovelace are both integers here.                       *)
(***************************************************************************)
\* the number of an integer literal
Num(n) == n * 10

\* x / 1000000 for a number x
divideByMillion(x) == x \div 1000000

DecimalDigits == "0123456789"

RECURSIVE digitsOf(_)
\* the decimal digits of a natural number
digitsOf(n) ==
    IF n < 10 THEN SubSeq(DecimalDigits, n + 1, n + 1)
    ELSE digitsOf(n \div 10) \o SubSeq(DecimalDigits, (n % 10) + 1, (n % 10) + 1)

\* Number.prototype.toString of a number that is not negative
numberToString(x) ==
    IF x % 10 = 0 THEN digitsOf(x \div 10)
    ELSE digitsOf(x \div 10) \o "." \o digitsOf(x % 10)

ESCROW_VALIDATOR_ADDRESS ==
    "addr1w8qmxkacjdffxah0l3qg8hq2pmvs58q8lcy42zy9kda2ylc6dy5r4"

\* parseInt of a number that is not negative: its integral part
parseIntOf(x) == (x \div 10) * 10

\* the datum createEscrowTransaction locks for an amount of ADA, with the
\* confirmations later approvals have set
escrowDatum(ada, senderConfirmed, receiverConfirmed) ==
    [amount |-> parseIntOf(ada * 1000000),
     sender_confirmed |-> senderConfirmed,
     receiver_confirmed |-> receiverConfirmed]

\* the lovelace createEscrowTransaction sends to the escrow address
escrowQuantity(ada) == numberToString(parseIntOf(ada * 1000000))

\* queryPendingTransactions: the transaction read from a UTXO of the escrow
\* address
pendingTransactionOf(utxo) ==
    [utxo |-> utxo,
     amount |-> divideByMillion(utxo.datum.amount),
     senderConfirmed |-> utxo.datum.sender_confirmed,
     receiverConfirmed |-> utxo.datum.receiver_confirmed,
     datum |-> utxo.datum]

\* const redeemer = userRole === 'sender' ? 'ConfirmSender' : 'ConfirmReceiver'
redeemerOf(role) == IF role = "sender" THEN "ConfirmSender" ELSE "ConfirmReceiver"

\* const updatedDatum = { ...transaction.datum, sender_confirmed: ..., ... }
updatedDatum(transaction, role) ==
    [transaction.datum EXCEPT
        !.sender_confirmed = IF role = "sender" THEN TRUE ELSE @,
        !.receiver_confirmed = IF role = "receiver" THEN TRUE ELSE @]

\* const bothConfirmed = updatedDatum.sender_confirmed && updatedDatum.receiver_confirmed
bothConfirmed(datum) == datum.sender_confirmed /\ datum.receiver_confirmed

\* approveTransaction up to its first await: the transaction it hands to
\* wallet.signTx, as the value redeemed and the assets sent
approveTransaction(transaction, role) ==
    IF bothConfirmed(updatedDatum(transaction, role))
    THEN [redeemValue |-> [value |-> transaction.utxo, redeemer |-> "Release"],
          sendAssets |-> <<>>]
    ELSE [redeemValue |-> [value |-> transaction.utxo, redeemer |-> redeemerOf(role)],
          sendAssets |->
              <<[address |-> ESCROW_VALIDATOR_ADDRESS,
                 datum |-> updatedDatum(transaction, role),
                 unit |-> "lovelace",
                 quantity |-> numberToString(transaction.amount)]>>]

\* the state before approveTransaction is called
ApproveIdle ==
    /\ escrowTx = Undefined
    /\ userRole = ""
    /\ approveTx = Undefined
    /\ approval = "none"

\* the send page before any event
SuggestIdle ==
    /\ sendMessage = ""
    /\ isAiCategorizing = FALSE
    /\ aiSuggestion = ""
    /\ categorizing = Undefined
    /\ suggestedFor = Undefined

(***************************************************************************)
(* The send page: the history kept in localStorage.                        *)
(***************************************************************************)
\* the keys of a saved transaction whose value may be undefined
OptionalKeys == {"message", "errorMessage", "txHash", "type"}

\* JSON.stringify of one transaction: a key whose value is undefined is
\* left out
stringifyEntry(t) ==
    [k \in {key \in DOMAIN t : key \in OptionalKeys => t[key].def} |-> t[k]]

\* JSON.stringify(transactions): the text kept in localStorage
JSONstringify(list) == [json |-> [i \in 1..Len(list) |-> stringifyEntry(list[i])]]

\* JSON.parse(storedTransactions)
JSONparse(item) == item.json

\* const newTransaction = { id: ..., timestamp: Date.now(), network, ...transaction }
newTransaction(now, net, transaction) ==
    transaction @@ [id |-> now, timestamp |-> now, network |-> net]

\* transactions.unshift(newTransaction) with the element put last instead
unshiftAtEnd(list, t) == Append(list, t)

\* transactions.unshift(newTransaction)
unshift(list, t) == <<t>> \o list

\* transactions.splice(100): what is left of the list
splice(list, start) == SubSeq(list, 1, start)

\* saveTransaction: the value under 'cardano_transactions' after the call
saveTransaction(item, now, net, transaction) ==
    LET parsed == IF item.def THEN JSONparse(item.val) ELSE <<>>
        longer == unshift(parsed, newTransaction(now, net, transaction))
        kept == IF Len(longer) > 100 THEN splice(longer, 100) ELSE longer
    IN  Defined(JSONstringify(kept))

\* transactions.slice(0, 10)
firstTen(list) == SubSeq(list, 1, IF Len(list) < 10 THEN Len(list) ELSE 10)

(***************************************************************************)
(* The send page: the checks of sendAda.  Amounts of ADA are numbers in    *)
(* tenths, as above.                                                       *)
(***************************************************************************)
\* String.prototype.startsWith
startsWith(s, prefix) ==
    Len(s) >= Len(prefix) /\ SubSeq(s, 1, Len(prefix)) = prefix

\* the value of a decimal digit
digitValue(c) == (CHOOSE i \in 1..10 : charAt(DecimalDigits, i) = c) - 1

RECURSIVE naturalOf(_)
\* the natural number a string of decimal digits writes (0 for none)
naturalOf(s) ==
    IF s = "" THEN 0
    ELSE naturalOf(SubSeq(s, 1, Len(s) - 1)) * 10 + digitValue(charAt(s, Len(s)))

\* the place of the decimal point in a string, 0 when it has none
pointOf(s) ==
    IF \E i \in 1..Len(s) : charAt(s, i) = "."
    THEN CHOOSE i \in 1..Len(s) : charAt(s, i) = "."
    ELSE 0

\* parseFloat of the value of a number field: an optional sign, digits, and
\* an optional point followed by one digit
parseFloatOf(s) ==
    LET negative == Len(s) > 0 /\ charAt(s, 1) = "-"
        body == IF negative THEN SubSeq(s, 2, Len(s)) ELSE s
        point == pointOf(body)
        whole == IF point = 0 THEN body ELSE SubSeq(body, 1, point - 1)
        tenths == IF point = 0 \/ point = Len(body) THEN 0
                  ELSE digitValue(charAt(body, point + 1))
        magnitude == naturalOf(whole) * 10 + tenths
    IN  IF negative THEN 0 - magnitude ELSE magnitude

\* parseInt(adaBalance.quantity) / 1_000_000
balanceInAdaOf(quantity) == divideByMillion(Num(naturalOf(quantity)))

\* Number.prototype.toFixed(6) of a number that is not negative
toFixed6(x) == digitsOf(x \div 10) \o "." \o digitsOf(x % 10) \o "00000"

\* const addressPrefix = network === 'preprod' ? 'addr_test1' : 'addr1'
addressPrefix(net) == IF net = "preprod" THEN "addr_test1" ELSE "addr1"

\* balanceInAda < minRequired with the 2 ADA for fees left out
insufficientWithoutFees(balanceInAda, sendAmountNum) == balanceInAda < sendAmountNum

\* balanceInAda < minRequired, where minRequired = sendAmountNum + 2
insufficient(balanceInAda, sendAmountNum) == balanceInAda < sendAmountNum + Num(2)

\* (sendAmountNum * 1_000_000).toString()
amountInLovelace(sendAmountNum) == numberToString(sendAmountNum * 1000000)

\* the error sendAda throws before it asks for the balance, if any
validationError(net, recipient, amount) ==
    IF ~startsWith(recipient, addressPrefix(net))
    THEN Str("Invalid " \o net \o " address format. Address must start with \""
             \o addressPrefix(net) \o "\"")
    ELSE IF parseFloatOf(amount) <= 0
    THEN Str("Amount must be greater than 0")
    ELSE Undefined

\* the error sendAda throws on the balance the wallet returned, if any
balanceError(walletBalance, amount) ==
    IF ~walletBalance.def
    THEN Str("Unable to retrieve wallet balance")
    ELSE IF insufficient(balanceInAdaOf(walletBalance.val), parseFloatOf(amount))
    THEN Str("Insufficient balance. You have "
             \o toFixed6(balanceInAdaOf(walletBalance.val))
             \o " ADA, but need at least "
             \o toFixed6(parseFloatOf(amount) + Num(2))
             \o " ADA (including ~2 ADA for fees)")
    ELSE Undefined

\* catch (error): the message shown for error.message
errorMessageOf(message) ==
    IF includes(message, "UTxO Fully Depleted")
    THEN "Insufficient funds. Please ensure you have enough ADA to cover the transaction amount plus network fees (~2 ADA)."
    ELSE IF includes(message, "insufficient funds")
    THEN "Insufficient funds in your wallet."
    ELSE IF includes(message, "User declined")
    THEN "Transaction was cancelled by user."
    ELSE message

\* message: sendMessage || undefined
messageOrUndefined(message) == IF message = "" THEN Undefined ELSE Str(message)

\* the argument of saveTransaction in the catch block
failedTransaction(closure, message) ==
    [amount |-> closure.sendAmount,
     recipient |-> closure.recipientAddress,
     message |-> messageOrUndefined(closure.sendMessage),
     status |-> "failed",
     errorMessage |-> Str(errorMessageOf(message)),
     category |-> "Other"]

\* the argument of saveTransaction after wallet.submitTx
successTransaction(closure, hash) ==
    [amount |-> closure.sendAmount,
     recipient |-> closure.recipientAddress,
     message |-> messageOrUndefined(closure.sendMessage),
     status |-> "success",
     txHash |-> Str(hash),
     category |-> "Other",
     type |-> Str("direct")]

\* localStorage before any save, and the history the page shows
HistoryIdle ==
    /\ stored = Undefined
    /\ saves = 0
    /\ transactionHistory = <<>>

\* the send form before any event
SendIdle ==
    /\ network = "preprod"
    /\ recipientAddress = ""
    /\ sendAmount = ""
    /\ sendLoading = FALSE
    /\ sendStatus = ""
    /\ sending = Undefined
    /\ signed = {}
    /\ submitted = {}
    /\ resetTimers = 0

\* the state of the send page and of the escrow helpers before any event
FormIdle ==
    /\ ApproveIdle
    /\ SuggestIdle
    /\ HistoryIdle
    /\ SendIdle

(***************************************************************************)
(* The classifiers as pure functions of a text.  A text is built from      *)
(* tokens: keywords of the three tables in lower, upper and mixed case,    *)
(* white space, and a word holding a non-ASCII letter.  Tokens are joined  *)
(* with no separator, so a keyword may end where the next one starts.      *)
(***************************************************************************)
Tokens ==
    {" ", "\t", "payment", "GIFT", "g" \o DotlessI \o "ft",
     "Network", "timeout", "Insufficient", "declined", "address"}

RECURSIVE Texts(_)
\* the concatenations of at most n tokens
Texts(n) ==
    IF n = 0 THEN {""}
    ELSE LET shorter == Texts(n - 1)
         IN  shorter \cup {t \o k : t \in shorter, k \in Tokens}

\* the texts the specification gives as examples
ExampleTexts ==
    {"test payment", "GIFT for mom", "gift for mom", "Let's grab dinner",
     "I have a business proposal for dinner contract",
     "Insufficient funds in wallet", "Network timeout occurred",
     "User declined the transaction"}

\* a transaction carrying the text as its message
messageTx(m) ==
    [id |-> 1, status |-> "success", message |-> Str(m), errorMessage |-> Undefined]

DashboardIdle ==
    /\ transactions = <<>>
    /\ rendered = FALSE
    /\ categories = <<>>
    /\ messageCategories = <<>>

\* the keywords of the fallbackCategorization table, each as a whole message
KeywordTexts ==
    UNION {{categoryKeywords[e][2][k] : k \in 1..Len(categoryKeywords[e][2])} :
              e \in 1..Len(categoryKeywords)}

InitClassifier ==
    /\ text \in Texts(MaxTokens) \cup ExampleTexts \cup KeywordTexts
    /\ call = "none"
    /\ result = ""
    /\ DashboardIdle
    /\ AIIdle
    /\ PendingIdle
    /\ FormIdle

CallFallbackCategorization ==
    /\ call' = "fallbackCategorization"
    /\ result' = fallbackCategorization(text)
    /\ UNCHANGED <<text, transactions, rendered, categories, messageCategories>>
    /\ UNCHANGED <<aiVars, pendingVars, formVars>>

CallGetErrorCategory ==
    /\ call' = "getErrorCategory"
    /\ result' = getErrorCategory(text)
    /\ UNCHANGED <<text, transactions, rendered, categories, messageCategories>>
    /\ UNCHANGED <<aiVars, pendingVars, formVars>>

\* categorizeByMessages over the single transaction whose message is text
CallCategorizeByMessages ==
    /\ call' = "categorizeByMessages"
    /\ result' = categorizeByMessages(<<messageTx(text)>>)
    /\ UNCHANGED <<text, transactions, rendered, categories, messageCategories>>
    /\ UNCHANGED <<aiVars, pendingVars, formVars>>

NextClassifier ==
    \/ CallFallbackCategorization
    \/ CallGetErrorCategory
    \/ CallCategorizeByMessages

SpecClassifier == InitClassifier /\ [][NextClassifier]_vars

(***************************************************************************)
(* One call of categorizeTransaction, for every key of the build and every *)
(* way the Gemini call can come back.                                      *)
(***************************************************************************)
\* GEMINI_API_KEY: unset, empty, the string 'undefined' left by a build
\* with the variable unset, or a key
ApiKeys == {Undefined, Str(""), Str("undefined"), Str("AIza")}

\* the texts a model may answer with
AnswerTexts == {"Food", " Gift\n", "Other", "food", "Groceries", "Food, Gift", ""}

\* the bodies response.json() may resolve to: null, and objects with and
\* without candidates, content, parts and text
ResponseData ==
    LET withCandidates(c) == Defined([candidates |-> c])
        withContent(c) == withCandidates(Defined(<<[content |-> c]>>))
        withParts(ps) == withContent(Defined([parts |-> ps]))
    IN  {Undefined,
         withCandidates(Undefined),
         withCandidates(Defined(<<>>)),
         withContent(Undefined),
         withParts(Undefined),
         withParts(Defined(<<>>)),
         withParts(Defined(<<[text |-> Undefined]>>))}
        \cup {withParts(Defined(<<[text |-> Str(t)]>>)) : t \in AnswerTexts}

\* the ways the Gemini call can come back
Responses ==
    {[fetch |-> "rejected", ok |-> FALSE, json |-> "none", data |-> Undefined],
     [fetch |-> "fulfilled", ok |-> FALSE, json |-> "none", data |-> Undefined],
     [fetch |-> "fulfilled", ok |-> TRUE, json |-> "rejected", data |-> Undefined]}
    \cup {[fetch |-> "fulfilled", ok |-> TRUE, json |-> "fulfilled", data |-> d] :
              d \in ResponseData}

InitAI ==
    /\ text \in Texts(1) \cup ExampleTexts
    /\ apiKey \in ApiKeys
    /\ promise = "none"
    /\ requests = 0
    /\ response = NoResponse
    /\ call = "none"
    /\ result = ""
    /\ DashboardIdle
    /\ PendingIdle
    /\ FormIdle

\* categorizeTransaction(message) up to its first await: the key check, and
\* the call of fetch
CallCategorizeTransaction ==
    /\ promise = "none"
    /\ call' = "categorizeTransaction"
    /\ IF keyMissing(apiKey)
       THEN /\ promise' = "resolved"
            /\ result' = fallbackCategorization(text)
            /\ UNCHANGED <<requests, response>>
       ELSE /\ promise' = "pending"
            /\ requests' = requests + 1
            /\ UNCHANGED <<result, response>>
    /\ UNCHANGED <<text, apiKey, transactions, rendered, categories, messageCategories>>
    /\ UNCHANGED <<pendingVars, formVars>>

\* the Gemini call comes back and categorizeTransaction runs to its end
GeminiResponds ==
    /\ promise = "pending"
    /\ \E r \in Responses :
          LET try == afterFetch(text, r)
              settled == IF try.threw THEN catchBlock(text)
                         ELSE [state |-> "resolved", value |-> try.value]
          IN  /\ response' = r
              /\ promise' = settled.state
              /\ result' = settled.value
    /\ UNCHANGED <<text, call, apiKey, requests>>
    /\ UNCHANGED <<transactions, rendered, categories, messageCategories, pendingVars, formVars>>

NextAI ==
    \/ CallCategorizeTransaction
    \/ GeminiResponds

SpecAI == InitAI /\ [][NextAI]_vars

(***************************************************************************)
(* The PendingTransactions component as the application mounts it: its     *)
(* onTransactionUpdate is handleTransactionSuccess, which increments       *)
(* refreshTrigger, and the effect on refreshTrigger calls loadTransactions.*)
(* A handler runs up to its await when the button is clicked and from its  *)
(* await on when its timer fires.                                          *)
(***************************************************************************)
\* the first used address of the wallets that may connect
WalletAddresses == {AddrQx2, AddrQy8, AddrQz9}

InitPending ==
    /\ PendingIdle
    /\ DashboardIdle
    /\ AIIdle
    /\ text = ""
    /\ call = "none"
    /\ result = ""
    /\ FormIdle

\* what no event of the component touches
NotOfPending ==
    <<text, call, result, transactions, rendered, categories, messageCategories,
      aiVars, formVars>>

\* a wallet connects: loadUserAddress
LoadUserAddress ==
    /\ \E address \in WalletAddresses : userAddress' = address
    /\ UNCHANGED <<pendingTransactions, loading, loads, actionLoading, inFlight>>
    /\ UNCHANGED NotOfPending

\* loadTransactions up to its await
loadTransactionsStarts ==
    /\ loads < MaxLoads
    /\ loading' = TRUE
    /\ loads' = loads + 1

\* a click on Approve: handleApprove up to its await.  The button is drawn
\* when the list is, for a transaction the user can approve, and is disabled
\* while actionLoading is the id of the transaction.
ClickApprove ==
    /\ ~loading
    /\ Cardinality(inFlight) < MaxInFlight
    /\ \E i \in 1..Len(pendingTransactions) :
          LET transaction == pendingTransactions[i]
          IN  /\ canUserApprove(transaction)
              /\ actionLoading # Defined(transaction.id)
              /\ actionLoading' = Defined(transaction.id)
              /\ inFlight' = inFlight \cup {[op |-> "approve", id |-> transaction.id,
                                              user |-> userAddress]}
    /\ UNCHANGED <<pendingTransactions, userAddress, loading, loads>>
    /\ UNCHANGED NotOfPending

\* handleApprove from its await on: the update of the list,
\* onTransactionUpdate, which makes the effect call loadTransactions, and
\* setActionLoading(null)
ApproveSettles ==
    /\ \E h \in inFlight :
          /\ h.op = "approve"
          /\ pendingTransactions' = approveUpdate(pendingTransactions, h.id, h.user)
          /\ inFlight' = inFlight \ {h}
    /\ loadTransactionsStarts
    /\ actionLoading' = Undefined
    /\ UNCHANGED userAddress
    /\ UNCHANGED NotOfPending

\* a click on Cancel: handleCancel up to its await
ClickCancel ==
    /\ ~loading
    /\ Cardinality(inFlight) < MaxInFlight
    /\ \E i \in 1..Len(pendingTransactions) :
          LET transaction == pendingTransactions[i]
          IN  /\ canUserCancel(transaction)
              /\ actionLoading # Defined(transaction.id)
              /\ actionLoading' = Defined(transaction.id)
              /\ inFlight' = inFlight \cup {[op |-> "cancel", id |-> transaction.id,
                                              user |-> userAddress]}
    /\ UNCHANGED <<pendingTransactions, userAddress, loading, loads>>
    /\ UNCHANGED NotOfPending

\* handleCancel from its await on
CancelSettles ==
    /\ \E h \in inFlight :
          /\ h.op = "cancel"
          /\ pendingTransactions' = cancelUpdate(pendingTransactions, h.id)
          /\ inFlight' = inFlight \ {h}
    /\ loadTransactionsStarts
    /\ actionLoading' = Undefined
    /\ UNCHANGED userAddress
    /\ UNCHANGED NotOfPending

\* a click on Refresh, drawn with the list when it is not empty
ClickRefresh ==
    /\ ~loading
    /\ Len(pendingTransactions) > 0
    /\ loadTransactionsStarts
    /\ UNCHANGED <<pendingTransactions, userAddress, actionLoading, inFlight>>
    /\ UNCHANGED NotOfPending

\* the parent increments refreshTrigger after a transaction was created
RefreshTriggered ==
    /\ loadTransactionsStarts
    /\ UNCHANGED <<pendingTransactions, userAddress, actionLoading, inFlight>>
    /\ UNCHANGED NotOfPending

\* loadTransactions from its await on
LoadSettles ==
    /\ loads > 0
    /\ pendingTransactions' = DEMO_TRANSACTIONS
    /\ loading' = FALSE
    /\ loads' = loads - 1
    /\ UNCHANGED <<userAddress, actionLoading, inFlight>>
    /\ UNCHANGED NotOfPending

NextPending ==
    \/ LoadUserAddress
    \/ ClickApprove
    \/ ApproveSettles
    \/ ClickCancel
    \/ CancelSettles
    \/ ClickRefresh
    \/ RefreshTriggered
    \/ LoadSettles

SpecPending == InitPending /\ [][NextPending]_vars

(***************************************************************************)
(* approveTransaction called once on a transaction that                    *)
(* queryPendingTransactions read from the escrow address.  The call runs   *)
(* up to wallet.signTx, and the wallet then signs and submits or fails.    *)
(***************************************************************************)
\* the amounts of ADA put in escrow: 1, 2.5, 25 and 100
EscrowAmounts == {Num(1), 25, Num(25), Num(100)}

\* the UTXOs createEscrowTransaction and earlier approvals leave at the
\* escrow address
EscrowUtxos ==
    {[txHash |-> "tx1", datum |-> escrowDatum(ada, s, r), quantity |-> escrowQuantity(ada)] :
        ada \in EscrowAmounts, s \in BOOLEAN, r \in BOOLEAN}

UserRoles == {"sender", "receiver"}

InitApprove ==
    /\ escrowTx \in {pendingTransactionOf(utxo) : utxo \in EscrowUtxos}
    /\ userRole \in UserRoles
    /\ approveTx = Undefined
    /\ approval = "none"
    /\ SuggestIdle
    /\ HistoryIdle
    /\ SendIdle
    /\ DashboardIdle
    /\ AIIdle
    /\ PendingIdle
    /\ text = ""
    /\ call = "none"
    /\ result = ""

\* what approveTransaction does not touch
NotOfApprove ==
    <<text, call, result, transactions, rendered, categories, messageCategories,
      aiVars, pendingVars, suggestVars, historyVars, sendVars>>

\* approveTransaction from its first line to await wallet.signTx(tx)
ApproveTransaction ==
    /\ approval = "none"
    /\ approveTx' = Defined(approveTransaction(escrowTx, userRole))
    /\ approval' = "signTx"
    /\ UNCHANGED <<escrowTx, userRole>>
    /\ UNCHANGED NotOfApprove

\* the wallet signs: await wallet.submitTx(signedTx)
SignTxResolves ==
    /\ approval = "signTx"
    /\ approval' = "submitTx"
    /\ UNCHANGED <<escrowTx, userRole, approveTx>>
    /\ UNCHANGED NotOfApprove

\* the wallet submits: return txHash
SubmitTxResolves ==
    /\ approval = "submitTx"
    /\ approval' = "resolved"
    /\ UNCHANGED <<escrowTx, userRole, approveTx>>
    /\ UNCHANGED NotOfApprove

\* signing or submitting fails: throw new Error('Failed to approve transaction')
WalletRejects ==
    /\ approval \in {"signTx", "submitTx"}
    /\ approval' = "rejected"
    /\ UNCHANGED <<escrowTx, userRole, approveTx>>
    /\ UNCHANGED NotOfApprove

NextApprove ==
    \/ ApproveTransaction
    \/ SignTxResolves
    \/ SubmitTxResolves
    \/ WalletRejects

SpecApprove == InitApprove /\ [][NextApprove]_vars

(***************************************************************************)
(* The message field of the send page.  With no API key                    *)
(* categorizeTransaction returns without waiting for anything, so          *)
(* handleMessageChange runs to its end before the next event; with a key   *)
(* it waits for the Gemini call, and events arrive in between.             *)
(***************************************************************************)
\* what categorizeTransaction(message) may resolve to
categorizeTransactionResults(key, message) ==
    IF keyMissing(key) THEN {fallbackCategorization(message)}
    ELSE {LET try == afterFetch(message, r)
          IN  IF try.threw THEN catchBlock(message).value ELSE try.value :
             r \in Responses}

\* what the user types into the message field
Messages == {"", "tea", "a  b", "pizza night", " gift for mom ", "rent"}

InitSuggest ==
    /\ SuggestIdle
    /\ apiKey \in ApiKeys
    /\ promise = "none"
    /\ requests = 0
    /\ response = NoResponse
    /\ ApproveIdle
    /\ HistoryIdle
    /\ SendIdle
    /\ DashboardIdle
    /\ PendingIdle
    /\ text = ""
    /\ call = "none"
    /\ result = ""

\* what the message field does not touch
NotOfSuggest ==
    <<text, call, result, transactions, rendered, categories, messageCategories,
      aiVars, pendingVars, approveVars, historyVars, sendVars>>

\* handleMessageChange on a change the page does not categorize
MessageChangeSkipped ==
    /\ \E message \in Messages \ {sendMessage} :
          /\ ~(Len(trim(message)) > 3 /\ ~isAiCategorizing)
          /\ sendMessage' = message
    /\ UNCHANGED <<isAiCategorizing, aiSuggestion, categorizing, suggestedFor>>
    /\ UNCHANGED NotOfSuggest

\* handleMessageChange with no API key: categorizeTransaction resolves with
\* the fallback and the handler runs to its end
MessageChangeFallback ==
    /\ keyMissing(apiKey) = TRUE
    /\ \E message \in Messages \ {sendMessage} :
          /\ Len(trim(message)) > 3 /\ ~isAiCategorizing
          /\ sendMessage' = message
          /\ aiSuggestion' \in categorizeTransactionResults(apiKey, trim(message))
          /\ suggestedFor' = Str(trim(message))
    /\ UNCHANGED <<isAiCategorizing, categorizing>>
    /\ UNCHANGED NotOfSuggest

\* handleMessageChange with an API key, up to await categorizeTransaction
MessageChangeCategorizes ==
    /\ keyMissing(apiKey) = FALSE
    /\ \E message \in Messages \ {sendMessage} :
          /\ Len(trim(message)) > 3 /\ ~isAiCategorizing
          /\ sendMessage' = message
          /\ categorizing' = Str(trim(message))
    /\ isAiCategorizing' = TRUE
    /\ aiSuggestion' = ""
    /\ suggestedFor' = Undefined
    /\ UNCHANGED NotOfSuggest

\* the awaited call resolves: setAiSuggestion(suggestion), and finally
\* setIsAiCategorizing(false)
CategorizationSettles ==
    /\ categorizing.def
    /\ aiSuggestion' \in categorizeTransactionResults(apiKey, categorizing.val)
    /\ suggestedFor' = categorizing
    /\ isAiCategorizing' = FALSE
    /\ categorizing' = Undefined
    /\ UNCHANGED sendMessage
    /\ UNCHANGED NotOfSuggest

\* the form is reset after a send or when the wallet disconnects
ResetForm ==
    /\ sendMessage' = ""
    /\ aiSuggestion' = ""
    /\ suggestedFor' = Undefined
    /\ UNCHANGED <<isAiCategorizing, categorizing>>
    /\ UNCHANGED NotOfSuggest

NextSuggest ==
    \/ MessageChangeSkipped
    \/ MessageChangeFallback
    \/ MessageChangeCategorizes
    \/ CategorizationSettles
    \/ ResetForm

SpecSuggest == InitSuggest /\ [][NextSuggest]_vars

(***************************************************************************)
(* saveTransaction and loadTransactionHistory on a history that earlier    *)
(* sessions have filled.                                                   *)
(***************************************************************************)
\* the transaction an earlier session saved i saves ago
savedBefore(i) ==
    [id |-> 0 - i, timestamp |-> 0 - i, network |-> "preprod", amount |-> "1",
     recipient |-> "addr_test1qz", status |-> "success", txHash |-> Str("a1b2"),
     category |-> "Other", type |-> Str("direct")]

\* the history after n saves of earlier sessions, the last one first
HistoryOf(n) == JSONstringify([i \in 1..n |-> savedBefore(i)])

\* the histories a session starts on: none, and 1, 99 and 100 transactions
Histories == {Undefined, Defined(HistoryOf(1)), Defined(HistoryOf(99)), Defined(HistoryOf(100))}

\* the arguments sendAda gives saveTransaction
SavedTransactions ==
    {[amount |-> "1", recipient |-> "addr_test1qz", message |-> Str("rent"),
      status |-> "success", txHash |-> Str("c3d4"), category |-> "Other",
      type |-> Str("direct")],
     [amount |-> "1", recipient |-> "addr_test1qz", message |-> Undefined,
      status |-> "success", txHash |-> Str("c3d4"), category |-> "Other",
      type |-> Str("escrow")],
     [amount |-> "0", recipient |-> "addr_test1qz", message |-> Undefined,
      status |-> "failed", errorMessage |-> Str("Amount must be greater than 0"),
      category |-> "Other"]}

InitHistory ==
    /\ stored \in Histories
    /\ saves = 0
    /\ transactionHistory = <<>>
    /\ SendIdle
    /\ ApproveIdle
    /\ SuggestIdle
    /\ DashboardIdle
    /\ AIIdle
    /\ PendingIdle
    /\ text = ""
    /\ call = "none"
    /\ result = ""

\* what the history does not touch
NotOfHistory ==
    <<text, call, result, transactions, rendered, categories, messageCategories,
      aiVars, pendingVars, approveVars, suggestVars, sendVars>>

\* saveTransaction(transaction)
CallSaveTransaction ==
    /\ saves < MaxSaves
    /\ \E transaction \in SavedTransactions :
          stored' = saveTransaction(stored, saves + 1, network, transaction)
    /\ saves' = saves + 1
    /\ UNCHANGED transactionHistory
    /\ UNCHANGED NotOfHistory

\* loadTransactionHistory()
LoadTransactionHistory ==
    /\ transactionHistory' =
           IF stored.def THEN firstTen(JSONparse(stored.val)) ELSE transactionHistory
    /\ UNCHANGED <<stored, saves>>
    /\ UNCHANGED NotOfHistory

NextHistory ==
    \/ CallSaveTransaction
    \/ LoadTransactionHistory

SpecHistory == InitHistory /\ [][NextHistory]_vars

(***************************************************************************)
(* sendAda.  The Send button is disabled while sendLoading is true or a    *)
(* field is empty, so one call runs at a time, on a recipient and an       *)
(* amount that are not empty; the fields stay editable while it waits.     *)
(* selectedCategory and showEscrowMode stay at their initial values.       *)
(***************************************************************************)
\* what the user types as the recipient
Addresses == {"", "addr_test1qz", "addr1qx"}

\* what the amount field holds: nothing, or a number
Amounts == {"", "-1", "0", "1", "2.5"}

\* the lovelace wallet.getBalance() reports: none, or 2, 3 and 4.5 ADA
WalletBalances == {Undefined, Str("2000000"), Str("3000000"), Str("4500000")}

InitSend ==
    /\ SendIdle
    /\ HistoryIdle
    /\ sendMessage \in {"", "rent"}
    /\ isAiCategorizing = FALSE
    /\ aiSuggestion = ""
    /\ categorizing = Undefined
    /\ suggestedFor = Undefined
    /\ ApproveIdle
    /\ DashboardIdle
    /\ AIIdle
    /\ PendingIdle
    /\ text = ""
    /\ call = "none"
    /\ result = ""

\* what the send form does not touch
NotOfSend ==
    <<text, call, result, transactions, rendered, categories, messageCategories,
      aiVars, pendingVars, approveVars, isAiCategorizing, categorizing>>

\* onChange={(e) => setRecipientAddress(e.target.value)}
SetRecipientAddress ==
    /\ \E value \in Addresses \ {recipientAddress} : recipientAddress' = value
    /\ UNCHANGED <<network, sendAmount, sendLoading, sendStatus, sending, signed,
                   submitted, resetTimers>>
    /\ UNCHANGED <<historyVars, sendMessage, aiSuggestion, suggestedFor, NotOfSend>>

\* onChange={(e) => setSendAmount(e.target.value)}
SetSendAmount ==
    /\ \E value \in Amounts \ {sendAmount} : sendAmount' = value
    /\ UNCHANGED <<network, recipientAddress, sendLoading, sendStatus, sending,
                   signed, submitted, resetTimers>>
    /\ UNCHANGED <<historyVars, sendMessage, aiSuggestion, suggestedFor, NotOfSend>>

\* the Send button can be clicked
CanSend ==
    /\ ~sendLoading
    /\ recipientAddress # ""
    /\ sendAmount # ""
    /\ saves < MaxSends

\* the values sendAda reads from the render it was created in
Closure ==
    [recipientAddress |-> recipientAddress, sendAmount |-> sendAmount,
     sendMessage |-> sendMessage, network |-> network]

\* the catch block and the finally block of sendAda
Catch(closure, message) ==
    /\ sendStatus' = "error"
    /\ stored' = saveTransaction(stored, saves + 1, closure.network,
                                 failedTransaction(closure, message))
    /\ saves' = saves + 1
    /\ sendLoading' = FALSE
    /\ sending' = Undefined

\* sendAda throws at the address check or at the amount check
SendAdaInvalid ==
    /\ CanSend
    /\ validationError(network, recipientAddress, sendAmount).def
    /\ Catch(Closure, validationError(network, recipientAddress, sendAmount).val)
    /\ UNCHANGED <<network, recipientAddress, sendAmount, signed, submitted, resetTimers>>
    /\ UNCHANGED <<transactionHistory, sendMessage, aiSuggestion, suggestedFor, NotOfSend>>

\* sendAda up to await wallet.getBalance()
SendAdaChecksBalance ==
    /\ CanSend
    /\ ~validationError(network, recipientAddress, sendAmount).def
    /\ sendLoading' = TRUE
    /\ sendStatus' = "Checking balance..."
    /\ sending' = Defined([at |-> "getBalance", closure |-> Closure, balance |-> Undefined])
    /\ UNCHANGED <<network, recipientAddress, sendAmount, signed, submitted, resetTimers>>
    /\ UNCHANGED <<historyVars, sendMessage, aiSuggestion, suggestedFor, NotOfSend>>

\* sendAda stands at the await
At(place) == sending.def /\ sending.val.at = place

\* the balance arrives and is too small, or holds no lovelace
BalanceInsufficient ==
    /\ At("getBalance")
    /\ \E walletBalance \in WalletBalances :
          /\ balanceError(walletBalance, sending.val.closure.sendAmount).def
          /\ Catch(sending.val.closure,
                   balanceError(walletBalance, sending.val.closure.sendAmount).val)
    /\ UNCHANGED <<network, recipientAddress, sendAmount, signed, submitted, resetTimers>>
    /\ UNCHANGED <<transactionHistory, sendMessage, aiSuggestion, suggestedFor, NotOfSend>>

\* the balance arrives and is enough: sendAda up to await tx.build()
BalanceSufficient ==
    /\ At("getBalance")
    /\ \E walletBalance \in WalletBalances :
          /\ ~balanceError(walletBalance, sending.val.closure.sendAmount).def
          /\ sending' = Defined([sending.val EXCEPT !.at = "build", !.balance = walletBalance])
    /\ sendStatus' = "Building transaction..."
    /\ UNCHANGED <<network, recipientAddress, sendAmount, sendLoading, signed,
                   submitted, resetTimers>>
    /\ UNCHANGED <<historyVars, sendMessage, aiSuggestion, suggestedFor, NotOfSend>>

\* what wallet.signTx and wallet.submitTx are called on
WalletCall ==
    [recipient |-> sending.val.closure.recipientAddress,
     network |-> sending.val.closure.network,
     sendAmount |-> sending.val.closure.sendAmount,
     lovelace |-> amountInLovelace(parseFloatOf(sending.val.closure.sendAmount)),
     balance |-> sending.val.balance.val]

\* tx.build() resolves: wallet.signTx(unsignedTx) is called
BuildResolves ==
    /\ At("build")
    /\ signed' = signed \cup {WalletCall}
    /\ sending' = Defined([sending.val EXCEPT !.at = "signTx"])
    /\ sendStatus' = "Waiting for signature..."
    /\ UNCHANGED <<network, recipientAddress, sendAmount, sendLoading, submitted, resetTimers>>
    /\ UNCHANGED <<historyVars, sendMessage, aiSuggestion, suggestedFor, NotOfSend>>

\* wallet.signTx resolves: wallet.submitTx(signedTx) is called
SignResolves ==
    /\ At("signTx")
    /\ submitted' = submitted \cup {WalletCall}
    /\ sending' = Defined([sending.val EXCEPT !.at = "submitTx"])
    /\ sendStatus' = "Submitting transaction..."
    /\ UNCHANGED <<network, recipientAddress, sendAmount, sendLoading, signed, resetTimers>>
    /\ UNCHANGED <<historyVars, sendMessage, aiSuggestion, suggestedFor, NotOfSend>>

\* wallet.submitTx resolves: the transaction is saved and the timers are set
SubmitResolves ==
    /\ At("submitTx")
    /\ sendStatus' = "success"
    /\ stored' = saveTransaction(stored, saves + 1, sending.val.closure.network,
                                 successTransaction(sending.val.closure, "c3d4"))
    /\ saves' = saves + 1
    /\ resetTimers' = resetTimers + 1
    /\ sendLoading' = FALSE
    /\ sending' = Undefined
    /\ UNCHANGED <<network, recipientAddress, sendAmount, signed, submitted>>
    /\ UNCHANGED <<transactionHistory, sendMessage, aiSuggestion, suggestedFor, NotOfSend>>

\* what the wallet and the transaction builder fail with at each await
WalletErrors ==
    [getBalance |-> "Wallet not enabled", build |-> "UTxO Fully Depleted",
     signTx |-> "User declined sign tx", submitTx |-> "insufficient funds for fee"]

\* an awaited call rejects
WalletFails ==
    /\ sending.def
    /\ Catch(sending.val.closure, WalletErrors[sending.val.at])
    /\ UNCHANGED <<network, recipientAddress, sendAmount, signed, submitted, resetTimers>>
    /\ UNCHANGED <<transactionHistory, sendMessage, aiSuggestion, suggestedFor, NotOfSend>>

\* the timer of line 269 fires: the form is reset
ResetTimerFires ==
    /\ resetTimers > 0
    /\ resetTimers' = resetTimers - 1
    /\ recipientAddress' = ""
    /\ sendAmount' = ""
    /\ sendMessage' = ""
    /\ aiSuggestion' = ""
    /\ suggestedFor' = Undefined
    /\ UNCHANGED <<network, sendLoading, sendStatus, sending, signed, submitted>>
    /\ UNCHANGED <<historyVars, NotOfSend>>

NextSend ==
    \/ SetRecipientAddress
    \/ SetSendAmount
    \/ SendAdaInvalid
    \/ SendAdaChecksBalance
    \/ BalanceInsufficient
    \/ BalanceSufficient
    \/ BuildResolves
    \/ SignResolves
    \/ SubmitResolves
    \/ WalletFails
    \/ ResetTimerFires

SpecSend == InitSend /\ [][NextSend]_vars

(***************************************************************************)
(* The Dashboard: its body runs categorizeTransactions and                 *)
(* categorizeByMessages on the transactions it holds, on every render.     *)
(***************************************************************************)
TxMessages ==
    {Undefined, Str(""), Str("   "), Str("test payment"), Str("GIFT for mom"),
     Str("hello")}

TxErrorMessages ==
    {Undefined, Str("  "), Str("Network timeout occurred"), Str("Timeout")}

Transaction(id) ==
    [id : {id}, status : Status, message : TxMessages, errorMessage : TxErrorMessages]

RECURSIVE TransactionLists(_)
\* the lists of at most n transactions, the id of each its place in the list
TransactionLists(n) ==
    IF n = 0 THEN {<<>>}
    ELSE LET shorter == TransactionLists(n - 1)
         IN  shorter \cup
             {Append(txs, tx) : txs \in {l \in shorter : Len(l) = n - 1},
                                tx \in Transaction(n)}

Init ==
    /\ transactions \in TransactionLists(MaxTxs)
    /\ rendered = FALSE
    /\ categories = <<>>
    /\ messageCategories = <<>>
    /\ text = ""
    /\ call = "none"
    /\ result = ""
    /\ AIIdle
    /\ PendingIdle
    /\ FormIdle

\* Render with a grouping that takes the failed transactions out of the list
\* it is given
RenderTakingFailed ==
    /\ categories' = categorizeTransactions(transactions)
    /\ messageCategories' = categorizeByMessages(transactions)
    /\ rendered' = TRUE
    /\ transactions' = SelectSeq(transactions, LAMBDA tx : tx.status # "failed")
    /\ UNCHANGED <<text, call, result, aiVars, pendingVars, formVars>>

\* the body of Dashboard: both groupings are recomputed from transactions
Render ==
    /\ categories' = categorizeTransactions(transactions)
    /\ messageCategories' = categorizeByMessages(transactions)
    /\ rendered' = TRUE
    /\ UNCHANGED <<transactions, text, call, result, aiVars, pendingVars, formVars>>

Next == Render

Spec == Init /\ [][Next]_vars

(***************************************************************************)
(* Properties of the classifiers (SpecClassifier).                         *)
(***************************************************************************)
Range(seq) == {seq[i] : i \in 1..Len(seq)}

\* the case forms of a text, character by character; the uppercase form of
\* the dotless i is the ASCII letter I
lowerForm ==
    [c \in {charAt(UpperCaseLetters, i) : i \in 1..26} |->
        charAt(LowerCaseLetters,
               CHOOSE j \in 1..26 : charAt(UpperCaseLetters, j) = c)]

upperForm ==
    [c \in {charAt(LowerCaseLetters, i) : i \in 1..26} \cup {DotlessI} |->
        IF c = DotlessI THEN "I"
        ELSE charAt(UpperCaseLetters,
                    CHOOSE j \in 1..26 : charAt(LowerCaseLetters, j) = c)]

RECURSIVE AllLowerCase(_)
AllLowerCase(s) ==
    IF Len(s) = 0 THEN ""
    ELSE (IF charAt(s, 1) \in DOMAIN lowerForm THEN lowerForm[charAt(s, 1)]
          ELSE charAt(s, 1)) \o AllLowerCase(SubSeq(s, 2, Len(s)))

RECURSIVE AllUpperCase(_)
AllUpperCase(s) ==
    IF Len(s) = 0 THEN ""
    ELSE (IF charAt(s, 1) \in DOMAIN upperForm THEN upperForm[charAt(s, 1)]
          ELSE charAt(s, 1)) \o AllUpperCase(SubSeq(s, 2, Len(s)))

\* k occurs in m: m is a prefix, then k, then a suffix
Occurs(k, m) ==
    \E i \in 0..(Len(m) - Len(k)) : SubSeq(m, i + 1, i + Len(k)) = k

\* every character of s is white space (so is the empty string)
IsBlank(s) == \A i \in 1..Len(s) : charAt(s, i) \in WhiteSpace

\* the two tables in the order the claims give them
MessageOrder ==
    <<"Payments & Purchases", "Gifts & Tips", "Business & Work", "Family & Friends",
      "Food & Dining", "Testing & Development", "Other Messages">>

FallbackOrder ==
    <<"Food", "Shopping", "Bills", "Entertainment", "Transport", "Services",
      "Investment", "Gift", "Other">>

\* category c of the message table has a keyword occurring in m, a
\* lowercased text
MessageMatch(c, m) ==
    \E k \in Range(messageCategoryTable[c].keywords) : Occurs(k, m)

\* entry e of the fallback table has a keyword occurring in m, a lowercased
\* text
FallbackMatch(e, m) ==
    \E k \in Range(categoryKeywords[e][2]) : Occurs(k, m)

\* the place of the first category out of n that matches, 0 when none does
FirstOf(n, Match(_)) ==
    IF \E c \in 1..n : Match(c)
    THEN CHOOSE c \in 1..n : Match(c) /\ \A d \in 1..(c - 1) : ~Match(d)
    ELSE 0

\* the names of the buckets categorizeByMessages returned
BucketNames(buckets) == [b \in 1..Len(buckets) |-> buckets[b].category]

\* C1: first match wins.  fallbackCategorization returns the first category
\* of FallbackOrder with a keyword occurring in the lowercased text, and
\* "Other" only when none has; categorizeByMessages puts a message it
\* classifies in the first category of MessageOrder with such a keyword, and
\* in "Other Messages" only when none has; "test payment" goes to
\* "Payments & Purchases".
C1_FirstMatchWins ==
    /\ [c \in 1..Len(messageCategoryTable) |-> messageCategoryTable[c].category]
           = MessageOrder
    /\ [e \in 1..Len(categoryKeywords) |-> categoryKeywords[e][1]] \o <<"Other">>
           = FallbackOrder
    /\ call = "fallbackCategorization" =>
          LET lower == AllLowerCase(text)
              first == FirstOf(Len(categoryKeywords), LAMBDA e : FallbackMatch(e, lower))
          IN  result = FallbackOrder[IF first = 0 THEN Len(FallbackOrder) ELSE first]
    /\ (call = "categorizeByMessages" /\ ~IsBlank(text)) =>
          LET lower == AllLowerCase(text)
              first == FirstOf(Len(MessageOrder), LAMBDA c : MessageMatch(c, lower))
          IN  BucketNames(result)
                  = <<MessageOrder[IF first = 0 THEN Len(MessageOrder) ELSE first]>>
    /\ (call = "categorizeByMessages" /\ text = "test payment") =>
          BucketNames(result) = <<"Payments & Purchases">>

\* a message with keywords of two categories, classified
C1_Witness ==
    /\ call = "categorizeByMessages"
    /\ text = "test payment"
    /\ MessageMatch(1, text) /\ MessageMatch(6, text)
    /\ text = AllLowerCase(text)
    /\ BucketNames(result) = <<"Payments & Purchases">>

ErrorCategories ==
    {"Insufficient Funds", "User Cancelled", "Network Issues", "Invalid Address",
     "Timeout", "Other Errors"}

\* C2: every call returns, and returns a member of its taxonomy:
\* fallbackCategorization an element of TRANSACTION_CATEGORIES,
\* getErrorCategory one of the six error categories, and categorizeByMessages
\* puts a message that takes part in one category of its table.
C2_TotalAndMember ==
    /\ call = "fallbackCategorization" => result \in Range(TRANSACTION_CATEGORIES)
    /\ call = "getErrorCategory" => result \in ErrorCategories
    /\ (call = "categorizeByMessages" /\ ~IsBlank(text)) =>
          /\ Len(result) = 1
          /\ result[1].category \in Range(MessageOrder)
          /\ result[1].transactions = <<messageTx(text)>>

\* the empty string, classified by the fallback
C2_Witness ==
    /\ text = ""
    /\ call = "fallbackCategorization"
    /\ result = "Other"

\* C3: the empty string and every string of white space only go to the
\* catch-all: "Other" from fallbackCategorization, "Other Errors" from
\* getErrorCategory.
C3_BlankToCatchAll ==
    IsBlank(text) =>
        /\ call = "fallbackCategorization" => result = "Other"
        /\ call = "getErrorCategory" => result = "Other Errors"

\* a non-empty string of white space, classified as an error text
C3_Witness ==
    /\ Len(text) > 1
    /\ IsBlank(text)
    /\ call = "getErrorCategory"
    /\ result = "Other Errors"

\* what classifier fn makes of the text m: a category name, or the names of
\* the buckets categorizeByMessages returns for the one message m
Classify(fn, m) ==
    CASE fn = "fallbackCategorization" -> fallbackCategorization(m)
      [] fn = "getErrorCategory" -> getErrorCategory(m)
      [] fn = "categorizeByMessages" -> BucketNames(categorizeByMessages(<<messageTx(m)>>))

\* what the last call made of text
Outcome == IF call = "categorizeByMessages" THEN BucketNames(result) ELSE result

\* no character of s is outside ASCII
IsAscii(s) == \A i \in 1..Len(s) : charAt(s, i) # DotlessI

\* C4 as stated: for every text, the text, its all-uppercase form and its
\* all-lowercase form are classified alike by each of the three classifiers.
C4_CaseInsensitiveAnyText ==
    call # "none" =>
        /\ Classify(call, AllUpperCase(text)) = Outcome
        /\ Classify(call, AllLowerCase(text)) = Outcome

\* C4, amended: for every text of ASCII characters, the text, its
\* all-uppercase form and its all-lowercase form are classified alike by
\* each of the three classifiers; for any text, so are the text and its
\* all-lowercase form.
C4_CaseInsensitiveAscii ==
    call # "none" =>
        /\ IsAscii(text) => Classify(call, AllUpperCase(text)) = Outcome
        /\ Classify(call, AllLowerCase(text)) = Outcome

\* a text of mixed case classified by one of its keywords
C4_Witness ==
    /\ IsAscii(text)
    /\ text # AllLowerCase(text)
    /\ text # AllUpperCase(text)
    /\ call = "fallbackCategorization"
    /\ result # "Other"

\* the error categories in the order getErrorCategory is claimed to test
\* them, each with its keywords
ErrorOrder ==
    <<"Insufficient Funds", "User Cancelled", "Network Issues", "Invalid Address",
      "Timeout">>

ErrorKeywords ==
    << {"insufficient", "depleted"}, {"declined", "cancelled"},
       {"network", "connection"}, {"address", "invalid"}, {"timeout"} >>

\* error category c has a keyword occurring in m, a lowercased text
ErrorMatch(c, m) == \E k \in ErrorKeywords[c] : Occurs(k, m)

\* C5: getErrorCategory returns the first category of ErrorOrder with a
\* keyword in the text: a text with "network" or "connection" and with
\* "timeout", and with no keyword of the two categories before, is a
\* "Network Issues"; "Timeout" is returned exactly when the text holds
\* "timeout" and no keyword of the four categories before it; the three
\* example texts resolve as claimed.
C5_ErrorPrecedence ==
    call = "getErrorCategory" =>
        LET lower == AllLowerCase(text)
            first == FirstOf(Len(ErrorOrder), LAMBDA c : ErrorMatch(c, lower))
        IN  /\ result = IF first = 0 THEN "Other Errors" ELSE ErrorOrder[first]
            /\ (ErrorMatch(3, lower) /\ ErrorMatch(5, lower)
                   /\ ~ErrorMatch(1, lower) /\ ~ErrorMatch(2, lower))
                  => result = "Network Issues"
            /\ result = "Timeout"
                  <=> (Occurs("timeout", lower) /\ \A c \in 1..4 : ~ErrorMatch(c, lower))
            /\ text = "Network timeout occurred" => result = "Network Issues"
            /\ text = "Insufficient funds in wallet" => result = "Insufficient Funds"
            /\ text = "User declined the transaction" => result = "User Cancelled"

\* the error text with a network and a timeout keyword, classified
C5_Witness ==
    /\ text = "Network timeout occurred"
    /\ ErrorMatch(3, AllLowerCase(text)) /\ ErrorMatch(5, AllLowerCase(text))
    /\ call = "getErrorCategory"
    /\ result = "Network Issues"

(***************************************************************************)
(* Properties of the Dashboard groupings (Spec).                           *)
(***************************************************************************)
\* an optional text that is absent, empty or white space only
IsBlankField(f) == ~f.def \/ IsBlank(f.val)

\* how many times tx occurs in the buckets
Occurrences(tx, buckets) ==
    Cardinality({<<b, j>> \in (1..Len(buckets)) \X (1..Len(transactions)) :
                    /\ j <= Len(buckets[b].transactions)
                    /\ buckets[b].transactions[j] = tx})

\* the "Failed: ..." categories of the Dashboard
IsFailedTitle(title) == Len(title) >= 8 /\ SubSeq(title, 1, 8) = "Failed: "

FailedCategories == SelectSeq(categories, LAMBDA c : IsFailedTitle(c.title))

\* C6: a transaction whose message is absent, empty or white space only is
\* in no bucket categorizeByMessages returns.
C6_BlankMessageExcluded ==
    rendered =>
        \A i \in 1..Len(transactions) :
            IsBlankField(transactions[i].message)
                => Occurrences(transactions[i], messageCategories) = 0

\* a transaction with a message of white space next to one that is grouped
C6_Witness ==
    /\ rendered
    /\ \E i \in 1..Len(transactions) :
          /\ transactions[i].message.def
          /\ Len(transactions[i].message.val) > 0
          /\ IsBlank(transactions[i].message.val)
    /\ Len(messageCategories) > 0

RECURSIVE SumSizes(_)
SumSizes(buckets) ==
    IF Len(buckets) = 0 THEN 0
    ELSE Len(Head(buckets).transactions) + SumSizes(Tail(buckets))

\* C8: every transaction with a non-blank message is in exactly one bucket
\* of categorizeByMessages, once, and the bucket sizes sum to the number of
\* such transactions; every failed transaction is in exactly one
\* "Failed: ..." category of categorizeTransactions, once.
C8_ExactlyOneBucket ==
    rendered =>
        /\ \A i \in 1..Len(transactions) :
              ~IsBlankField(transactions[i].message)
                  => Occurrences(transactions[i], messageCategories) = 1
        /\ SumSizes(messageCategories)
              = Cardinality({i \in 1..Len(transactions) :
                                ~IsBlankField(transactions[i].message)})
        /\ \A i \in 1..Len(transactions) :
              transactions[i].status = "failed"
                  => Occurrences(transactions[i], FailedCategories) = 1
        /\ SumSizes(FailedCategories)
              = Cardinality({i \in 1..Len(transactions) :
                                transactions[i].status = "failed"})

\* two failed transactions whose messages match keywords of two categories
C8_Witness ==
    /\ rendered
    /\ Len(transactions) >= 2
    /\ \A i \in 1..Len(transactions) :
          /\ transactions[i].status = "failed"
          /\ transactions[i].message = Str("test payment")
    /\ SumSizes(messageCategories) = Len(transactions)
    /\ SumSizes(FailedCategories) = Len(transactions)

\* the place of a category name in MessageOrder
OrderIndex(name) == CHOOSE c \in 1..Len(MessageOrder) : MessageOrder[c] = name

\* C9: every bucket categorizeByMessages returns is non-empty, and the
\* buckets come in the order of MessageOrder, whatever the order of the
\* transactions.
C9_NonEmptyInTaxonomyOrder ==
    rendered =>
        /\ \A b \in 1..Len(messageCategories) :
              /\ Len(messageCategories[b].transactions) > 0
              /\ messageCategories[b].category \in Range(MessageOrder)
        /\ \A b \in 1..(Len(messageCategories) - 1) :
              OrderIndex(messageCategories[b].category)
                  < OrderIndex(messageCategories[b + 1].category)

\* the first transaction goes to the catch-all, a later one to the first
\* category, and the first category leads the result
C9_Witness ==
    /\ rendered
    /\ Len(transactions) >= 2
    /\ transactions[1].message = Str("hello")
    /\ transactions[2].message = Str("test payment")
    /\ BucketNames(messageCategories) = <<"Payments & Purchases", "Other Messages">>

\* C10: every transaction in a "Failed: ..." category has status 'failed':
\* a 'success' or 'pending' transaction is in none, whatever its errorMessage.
C10_OnlyFailedClassified ==
    rendered =>
        \A i \in 1..Len(transactions) :
            transactions[i].status # "failed"
                => Occurrences(transactions[i], FailedCategories) = 0

\* a successful transaction with an error text beside a failed one
C10_Witness ==
    /\ rendered
    /\ \E i \in 1..Len(transactions) :
          /\ transactions[i].status = "success"
          /\ transactions[i].errorMessage = Str("Network timeout occurred")
    /\ Len(FailedCategories) > 0

\* the error category of a transaction, as categorizeTransactions reads it
ErrorCategoryOf(tx) ==
    getErrorCategory(IF tx.errorMessage.def THEN tx.errorMessage.val ELSE "")

\* the places in transactions of the failed transactions of category name
FailedHits(name) ==
    {i \in 1..Len(transactions) :
        transactions[i].status = "failed" /\ ErrorCategoryOf(transactions[i]) = name}

\* the first place in transactions where category name is hit
FirstHit(name) == CHOOSE i \in FailedHits(name) : \A j \in FailedHits(name) : i <= j

\* the error category a "Failed: ..." title names
FailedName(title) == SubSeq(title, 9, Len(title))

\* C11: the "Failed: ..." categories are the error categories hit by at
\* least one failed transaction, each once, in the order in which each is
\* first hit while the transactions are walked, whatever the order of the
\* rules of getErrorCategory.
C11_FailedInFirstHitOrder ==
    rendered =>
        /\ {FailedName(FailedCategories[b].title) : b \in 1..Len(FailedCategories)}
               = {name \in ErrorCategories : FailedHits(name) # {}}
        /\ \A b \in 1..(Len(FailedCategories) - 1) :
               FirstHit(FailedName(FailedCategories[b].title))
                   < FirstHit(FailedName(FailedCategories[b + 1].title))

\* a Timeout failure walked before a Network Issues failure: the categories
\* come in that order, against the order of the rules
C11_Witness ==
    /\ rendered
    /\ Len(transactions) >= 2
    /\ transactions[1].status = "failed"
    /\ transactions[1].errorMessage = Str("Timeout")
    /\ transactions[2].status = "failed"
    /\ transactions[2].errorMessage = Str("Network timeout occurred")
    /\ [b \in 1..Len(FailedCategories) |-> FailedCategories[b].title]
           = <<"Failed: Timeout", "Failed: Network Issues">>

\* the place of tx in transactions
PlaceOf(tx) == CHOOSE p \in 1..Len(transactions) : transactions[p] = tx

\* the members of a bucket are transactions of the input, in its order
InInputOrder(bucket) ==
    /\ \A j \in 1..Len(bucket) : bucket[j] \in Range(transactions)
    /\ \A j \in 1..(Len(bucket) - 1) : PlaceOf(bucket[j]) < PlaceOf(bucket[j + 1])

\* C12: in every bucket categorizeByMessages returns, and in every status
\* and "Failed: ..." category categorizeTransactions returns, the
\* transactions are in the relative order they have in the input list.
C12_InputOrderKept ==
    rendered =>
        /\ \A b \in 1..Len(messageCategories) :
               InInputOrder(messageCategories[b].transactions)
        /\ \A b \in 1..Len(categories) : InInputOrder(categories[b].transactions)

\* two pending transactions with the same message: one message bucket and
\* one status category hold both
C12_Witness ==
    /\ rendered
    /\ Len(transactions) = 2
    /\ \A i \in 1..2 :
          /\ transactions[i].status = "pending"
          /\ transactions[i].message = Str("GIFT for mom")
    /\ Len(messageCategories) = 1
    /\ messageCategories[1].transactions = transactions
    /\ categories[2].transactions = transactions

C14_EmptyInputEmptyGrouping ==
    (rendered /\ transactions = <<>>) =>
        /\ messageCategories = <<>>
        /\ categories = <<>>

\* C14, amended: with no transactions, categorizeByMessages returns an empty
\* list, and categorizeTransactions returns its two status categories,
\* "Successful Transactions" and "Pending Transactions", each with no
\* transaction, and no "Failed: ..." category.
C14_EmptyInputStatusCategoriesOnly ==
    (rendered /\ transactions = <<>>) =>
        /\ messageCategories = <<>>
        /\ categories
               = << [title |-> "Successful Transactions", transactions |-> <<>>],
                    [title |-> "Pending Transactions", transactions |-> <<>>] >>
        /\ FailedCategories = <<>>

\* the Dashboard rendered with no transactions
C14_Witness ==
    /\ rendered
    /\ transactions = <<>>
    /\ Len(categories) = 2
    /\ Len(messageCategories) = 0

(***************************************************************************)
(* Properties of the message table and of its loop (SpecClassifier).       *)
(***************************************************************************)
\* the message table with the given keywords in its last category
WithLastKeywords(keywords) ==
    [messageCategoryTable EXCEPT ![Len(messageCategoryTable)].keywords = keywords]

\* C15: in the message table exactly one category has no keyword, it is the
\* last one and it is "Other Messages"; the loop of categorizeByMessages
\* never tests the keywords of the last category: it never stops there, and
\* it stops at the same place when the last category is given a keyword
\* that occurs in the message; the last category receives a message exactly
\* when the loop ends without a match.
C15_CatchAllLastNeverTested ==
    /\ {c \in 1..Len(messageCategoryTable) : messageCategoryTable[c].keywords = <<>>}
           = {Len(messageCategoryTable)}
    /\ messageCategoryTable[Len(messageCategoryTable)].category = "Other Messages"
    /\ call = "categorizeByMessages" =>
          LET lower == toLowerCase(text)
              stop == categoryLoop(lower, messageCategoryTable, 1)
          IN  /\ stop \in 0..(Len(messageCategoryTable) - 1)
              /\ hasKeyword(WithLastKeywords(<<lower>>)[Len(messageCategoryTable)], lower)
              /\ categoryLoop(lower, WithLastKeywords(<<lower>>), 1) = stop
              /\ ~IsBlank(text) =>
                     (stop = 0 <=> BucketNames(result) = <<"Other Messages">>)

\* a message with no keyword of the table, put in the last category
C15_Witness ==
    /\ call = "categorizeByMessages"
    /\ text = "address"
    /\ categoryLoop(text, messageCategoryTable, 1) = 0
    /\ BucketNames(result) = <<"Other Messages">>

\* the rules of getErrorCategory written as a table of the shape of the
\* message table
ErrorTaxonomy ==
    << [category |-> "Insufficient Funds", keywords |-> <<"insufficient", "depleted">>,
        transactions |-> <<>>],
       [category |-> "User Cancelled", keywords |-> <<"declined", "cancelled">>,
        transactions |-> <<>>],
       [category |-> "Network Issues", keywords |-> <<"network", "connection">>,
        transactions |-> <<>>],
       [category |-> "Invalid Address", keywords |-> <<"address", "invalid">>,
        transactions |-> <<>>],
       [category |-> "Timeout", keywords |-> <<"timeout">>, transactions |-> <<>>],
       [category |-> "Other Errors", keywords |-> <<>>, transactions |-> <<>>] >>

\* the categories of a table that hold a transaction
FilledNames(cats) ==
    {cats[c].category : c \in {d \in 1..Len(cats) : cats[d].transactions # <<>>}}

\* C16: for every error text, getErrorCategory returns the name of the
\* category in which the classifier of categorizeByMessages (lowercase the
\* text, stop at the first category with a keyword in it, else take the
\* last) puts an item with that text when it is given ErrorTaxonomy as its
\* table.
C16_SameClassifier ==
    call = "getErrorCategory" =>
        FilledNames(pushTransaction(ErrorTaxonomy, messageTx(text))) = {result}

\* a text with a capital letter and keywords of the first two rules
C16_Witness ==
    /\ call = "getErrorCategory"
    /\ text = "Insufficient" \o "declined"
    /\ result = "Insufficient Funds"
    /\ FilledNames(pushTransaction(ErrorTaxonomy, messageTx(text)))
           = {"Insufficient Funds"}

MalformedTaxonomies ==
    {SubSeq(messageCategoryTable, 1, Len(messageCategoryTable) - 1),
     WithLastKeywords(<<"other">>)}

IsPadded(s, c) ==
    \E i \in 1..(Len(s) - Len(c) + 1) :
        /\ SubSeq(s, i, i + Len(c) - 1) = c
        /\ IsBlank(SubSeq(s, 1, i - 1))
        /\ IsBlank(SubSeq(s, i + Len(c), Len(s)))

\* the text part of the first candidate of an answer that has one
AnswerText(r) == r.data.val.candidates.val[1].content.val.parts.val[1].text

\* r is a valid answer of the API: the call and its JSON body came through,
\* and the text of the first candidate is a category name, padded or not
IsValidAnswer(r) ==
    /\ r.fetch = "fulfilled" /\ r.ok /\ r.json = "fulfilled"
    /\ r.data.def
    /\ r.data.val.candidates.def
    /\ Len(r.data.val.candidates.val) > 0
    /\ r.data.val.candidates.val[1].content.def
    /\ r.data.val.candidates.val[1].content.val.parts.def
    /\ Len(r.data.val.candidates.val[1].content.val.parts.val) > 0
    /\ AnswerText(r).def
    /\ \E c \in Range(TRANSACTION_CATEGORIES) : IsPadded(AnswerText(r).val, c)

\* C19: the promise of categorizeTransaction is never rejected; once
\* resolved its value is an element of TRANSACTION_CATEGORIES; the value is
\* fallbackCategorization(message) unless the Gemini call came back with a
\* valid answer, and then it is the category the answer names; with the key
\* unset, empty or 'undefined' fetch is never called.
C19_AlwaysAValidCategory ==
    /\ promise # "rejected"
    /\ promise = "resolved" =>
          /\ result \in Range(TRANSACTION_CATEGORIES)
          /\ IF IsValidAnswer(response)
             THEN IsPadded(AnswerText(response).val, result)
             ELSE result = fallbackCategorization(text)
    /\ (~apiKey.def \/ apiKey.val \in {"", "undefined"}) => requests = 0

\* the API answered with a text outside the categories and the keyword
\* fallback classified the message
C19_Witness ==
    /\ promise = "resolved"
    /\ requests > 0
    /\ response.data
           = Defined([candidates |->
                 Defined(<<[content |->
                     Defined([parts |-> Defined(<<[text |-> Str("Groceries")]>>)])]>>)])
    /\ ~IsValidAnswer(response)
    /\ text = "GIFT for mom"
    /\ result = "Gift"

(***************************************************************************)
(* Properties of the PendingTransactions list (SpecPending).               *)
(***************************************************************************)
\* C20: in every state of the list reached from DEMO_TRANSACTIONS by
\* approvals, cancellations and refreshes, a transaction has status
\* 'completed' exactly when senderConfirmed and receiverConfirmed are both
\* true, and no transaction with both true has status 'pending'.
C20_CompletedIffBothConfirmed ==
    \A i \in 1..Len(pendingTransactions) :
        LET tx == pendingTransactions[i]
        IN  /\ tx.status = "completed"
                   <=> (tx.senderConfirmed /\ tx.receiverConfirmed)
            /\ ~(tx.senderConfirmed /\ tx.receiverConfirmed /\ tx.status = "pending")

\* the receiver approved the second demo transaction, which its sender had
\* confirmed: it is completed
C20_Witness ==
    /\ Len(pendingTransactions) >= 2
    /\ pendingTransactions[2].id = 2
    /\ pendingTransactions[2].senderConfirmed
    /\ pendingTransactions[2].receiverConfirmed
    /\ pendingTransactions[2].status = "completed"
    /\ pendingTransactions[2] # DEMO_TRANSACTIONS[2]

\* the transaction of the list with the given id is taken out by the step
Removed(i) ==
    \A j \in 1..Len(pendingTransactions') :
        pendingTransactions'[j].id # pendingTransactions[i].id

Ids(list) == {list[i].id : i \in 1..Len(list)}

\* C22: the state of an escrow only moves forward: from one state of the
\* list to the next, a confirmation flag that is true stays true, a
\* transaction that is 'completed' stays 'completed', and a transaction that
\* is no longer in the list does not come back, refreshes included.
C22_OnlyForward ==
    [][/\ Ids(pendingTransactions') \subseteq Ids(pendingTransactions)
       /\ \A i \in 1..Len(pendingTransactions) :
             \A j \in 1..Len(pendingTransactions') :
                 pendingTransactions'[j].id = pendingTransactions[i].id =>
                     /\ pendingTransactions[i].senderConfirmed
                            => pendingTransactions'[j].senderConfirmed
                     /\ pendingTransactions[i].receiverConfirmed
                            => pendingTransactions'[j].receiverConfirmed
                     /\ pendingTransactions[i].status = "completed"
                            => pendingTransactions'[j].status = "completed"]_vars

\* the flags of the datum after the approval of the role
ApprovedFlags(datum, role) ==
    [sender_confirmed |-> datum.sender_confirmed \/ role = "sender",
     receiver_confirmed |-> datum.receiver_confirmed \/ role = "receiver"]

\* the transaction built by approveTransaction sets the flag of the approving
\* role only, releases exactly when both flags are then set, and otherwise
\* confirms for the role and sends one output with the updated datum to the
\* escrow address
FlagsAndRedeemer ==
    approval # "none" =>
        LET built == approveTx.val
            flags == ApprovedFlags(escrowTx.datum, userRole)
            release == flags.sender_confirmed /\ flags.receiver_confirmed
        IN  /\ built.redeemValue.value = escrowTx.utxo
            /\ built.redeemValue.redeemer = "Release" <=> release
            /\ built.sendAssets = <<>> <=> release
            /\ ~release =>
                /\ userRole = "sender" => built.redeemValue.redeemer = "ConfirmSender"
                /\ userRole = "receiver" => built.redeemValue.redeemer = "ConfirmReceiver"
                /\ Len(built.sendAssets) = 1
                /\ built.sendAssets[1].address = ESCROW_VALIDATOR_ADDRESS
                /\ built.sendAssets[1].unit = "lovelace"
                /\ built.sendAssets[1].datum =
                       [escrowTx.datum EXCEPT
                           !.sender_confirmed = flags.sender_confirmed,
                           !.receiver_confirmed = flags.receiver_confirmed]

\* C23: approveTransaction follows the validator protocol: it sets only the
\* flag of the approving role, spends the escrow UTXO with 'Release' and
\* sends nothing back exactly when both flags are set after the update, and
\* otherwise spends with 'ConfirmSender' or 'ConfirmReceiver' and locks the
\* amount of the transaction again at ESCROW_VALIDATOR_ADDRESS, so that the
\* lovelace sent back are the lovelace the spent UTXO held
C23_ValidatorProtocol ==
    /\ FlagsAndRedeemer
    /\ approval # "none" =>
           \A i \in 1..Len(approveTx.val.sendAssets) :
               approveTx.val.sendAssets[i].quantity = escrowTx.utxo.quantity

\* C24: whenever no call of categorizeTransaction is in flight and the
\* message holds more than 3 characters once trimmed, aiSuggestion is the
\* category computed for the text the message field holds now
C24_SuggestionNeverStale ==
    (~categorizing.def /\ Len(trim(sendMessage)) > 3) =>
        /\ suggestedFor = Str(trim(sendMessage))
        /\ aiSuggestion \in categorizeTransactionResults(apiKey, trim(sendMessage))

\* the list under 'cardano_transactions' ([] when there is none)
StoredList(item) == IF item.def THEN JSONparse(item.val) ELSE <<>>

\* C26: the stored history is bounded and newest-first: it never holds more
\* than 100 transactions, and a call of saveTransaction puts the transaction
\* it saves at index 0, keeps the transactions stored before in their order,
\* and drops the oldest one only, and only when the list was full
C26_HistoryBoundedNewestFirst ==
    /\ [](Len(StoredList(stored)) <= 100)
    /\ [][saves' = saves + 1 =>
            LET old == StoredList(stored)
                new == StoredList(stored')
            IN  /\ Len(new) = (IF Len(old) < 100 THEN Len(old) + 1 ELSE 100)
                /\ new[1].id = saves'
                /\ new[1].timestamp = saves'
                /\ \A i \in 2..Len(new) : new[i] = old[i - 1]]_vars

\* a full history has taken a save: the saved transaction is first, the
\* oldest of the 100 is gone and the one before it is last
C26_Witness ==
    /\ saves = 1
    /\ Len(StoredList(stored)) = 100
    /\ StoredList(stored)[1].id = 1
    /\ StoredList(stored)[100].id = 0 - 99

\* a call of sendAda ends in the step
SendAdaEnds == saves' = saves + 1

\* C25: sendAda calls wallet.signTx and wallet.submitTx only for a recipient
\* that starts with the prefix of the network ('addr_test1' on preprod), an
\* amount greater than 0 and a lovelace balance of at least the amount plus
\* 2 ADA; a call that ends at a failed check signs and submits nothing, and
\* sendLoading is false when a call ends
C25_SendGuard ==
    /\ [](\A c \in signed \cup submitted :
             /\ c.network = "preprod"
             /\ SubSeq(c.recipient, 1, 10) = "addr_test1"
             /\ parseFloatOf(c.sendAmount) > 0
             /\ naturalOf(c.balance) >= (parseFloatOf(c.sendAmount) + 20) * 100000)
    /\ [][SendAdaEnds =>
            /\ sendLoading' = FALSE
            /\ (~sending.def \/ sending.val.at = "getBalance") =>
                   (signed' = signed /\ submitted' = submitted)]_vars

\* one call has ended at the amount check and a later one has been signed
\* and submitted
C25_Witness ==
    /\ saves = 2
    /\ ~sendLoading
    /\ signed # {}
    /\ submitted # {}
    /\ StoredList(stored)[1].status = "success"
    /\ StoredList(stored)[2].status = "failed"
    /\ StoredList(stored)[2].errorMessage = Str("Amount must be greater than 0")

\* C27: every keyword of the fallbackCategorization table is effective: the
\* message that is exactly a keyword listed under a category is classified
\* as that category
C27_EveryKeywordEffective ==
    call = "fallbackCategorization" =>
        \A e \in 1..Len(categoryKeywords) :
            \A k \in 1..Len(categoryKeywords[e][2]) :
                text = categoryKeywords[e][2][k] => result = categoryKeywords[e][1]

\* every category of the table is the class of one of its own keywords
EveryCategoryReachable ==
    \A e \in 1..Len(categoryKeywords) :
        \E k \in 1..Len(categoryKeywords[e][2]) :
            fallbackCategorization(categoryKeywords[e][2][k]) = categoryKeywords[e][1]

====
